---- MODULE Spec2Model ----
(***************************************************************************)
(* Mesh Health Aggregation Engine of kiali-mcp-server.                     *)
(*                                                                         *)
(* The module models Kiali.MeshHealthSummary (the concurrent fan-out of    *)
(* three Health fetches, the join, the error checks, parsing and the       *)
(* call of computeHealthSummary) and the pure classification and roll-up   *)
(* functions it uses.                                                      *)
(*                                                                         *)
(* float64 request counts and ratios are modelled as exact rationals       *)
(* <<numerator, denominator>> in lowest terms; a Go map is a TLA+ function *)
(* whose DOMAIN is the key set; a response code is the tuple of its        *)
(* characters, so that len(code) and code[0] are computed as in the code.  *)
(***************************************************************************)
EXTENDS Integers, Sequences, FiniteSets, TLC

\* ------------------------------------------------------------------------
\* Exact rationals standing for float64 values
\* ------------------------------------------------------------------------
RECURSIVE GCD(_, _)
GCD(a, b) ==
    IF b = 0 THEN a ELSE GCD(b, a % b)

Reduce(n, d, g) ==
    <<n \div g, d \div g>>

Rat(n, d) ==
    IF n = 0 THEN <<0, 1>> ELSE Reduce(n, d, GCD(n, d))

RatZero ==
    <<0, 1>>

RatAdd(x, y) ==
    Rat(x[1] * y[2] + y[1] * x[2], x[2] * y[2])

RatLT(x, y) ==
    x[1] * y[2] < y[1] * x[2]

RatGT(x, y) ==
    RatLT(y, x)

RatGE(x, y) ==
    ~RatLT(x, y)

RatTimesInt(x, k) ==
    Rat(x[1] * k, x[2])

\* ------------------------------------------------------------------------
\* Go maps
\* ------------------------------------------------------------------------
EmptyMap ==
    << >>

\* value of map m at key k, or the zero value dflt when the key is absent
Lookup(m, k, dflt) ==
    IF k \in DOMAIN m THEN m[k] ELSE dflt

\* the permutations of a finite set: the orders in which `range` may visit it
Perms(S) ==
    {p \in [1..Cardinality(S) -> S] : \A i, j \in 1..Cardinality(S) : p[i] = p[j] => i = j}

\* one enumeration of a finite set
RECURSIVE SetToSeq(_)
SetToSeq(S) ==
    IF S = {} THEN << >>
    ELSE LET x == CHOOSE x \in S : TRUE IN <<x>> \o SetToSeq(S \ {x})

\* ------------------------------------------------------------------------
\* Health statuses and response codes
\* ------------------------------------------------------------------------
Statuses ==
    {"UNHEALTHY", "DEGRADED", "NOT_READY", "HEALTHY", "UNKNOWN"}

priority ==
    [s \in Statuses |->
        CASE s = "UNHEALTHY" -> 4
          [] s = "DEGRADED"  -> 3
          [] s = "NOT_READY" -> 2
          [] s = "HEALTHY"   -> 1
          [] s = "UNKNOWN"   -> 0]

\* the merge with HEALTHY ranked above NOT_READY
mergeHealthStatusReadyFirst(s1, s2) ==
    IF Lookup("HEALTHY" :> 2 @@ "NOT_READY" :> 1 @@ priority, s1, 0)
           > Lookup("HEALTHY" :> 2 @@ "NOT_READY" :> 1 @@ priority, s2, 0)
    THEN s1 ELSE s2

mergeHealthStatus(s1, s2) ==
    IF Lookup(priority, s1, 0) > Lookup(priority, s2, 0) THEN s1 ELSE s2

isErrorCode(protocol, code) ==
    IF protocol = "http"
    THEN \/ code = <<"-">>
         \/ Len(code) = 3 /\ code[1] = "4"
         \/ Len(code) = 3 /\ code[1] = "5"
    ELSE IF protocol = "grpc"
    THEN \/ code = <<"-">>
         \/ code # <<"0">>
    ELSE FALSE

\* degraded above 0%, failure from 10%
statusZeroTen(percentage) ==
    IF RatGE(percentage, <<10, 1>>) THEN "UNHEALTHY"
    ELSE IF RatGT(percentage, RatZero) THEN "DEGRADED"
    ELSE "HEALTHY"

\* a faulty variant of statusTenTwenty: the two boundaries are exclusive
statusTenTwentyStrict(percentage) ==
    IF RatGT(percentage, <<20, 1>>) THEN "UNHEALTHY"
    ELSE IF RatGT(percentage, <<10, 1>>) THEN "DEGRADED"
    ELSE "HEALTHY"

\* degraded from 10%, failure from 20%
statusTenTwenty(percentage) ==
    IF RatGE(percentage, <<20, 1>>) THEN "UNHEALTHY"
    ELSE IF RatGE(percentage, <<10, 1>>) THEN "DEGRADED"
    ELSE "HEALTHY"

statusForPercentage(protocol, code, percentage) ==
    IF protocol = "http"
    THEN IF code = <<"-">> THEN statusZeroTen(percentage)
         ELSE IF Len(code) = 3 /\ code[1] = "5" THEN statusZeroTen(percentage)
         ELSE IF Len(code) = 3 /\ code[1] = "4" THEN statusTenTwenty(percentage)
         ELSE "HEALTHY"
    ELSE IF protocol = "grpc"
    THEN IF code # <<"0">> THEN statusZeroTen(percentage) ELSE "HEALTHY"
    ELSE "HEALTHY"

getStatusForCodeRatio(protocol, code, ratio) ==
    statusForPercentage(protocol, code, RatTimesInt(ratio, 100))

\* sum of the counts of one protocol's code map
RECURSIVE SumCounts(_, _)
SumCounts(codes, keys) ==
    IF keys = {} THEN 0
    ELSE LET c == CHOOSE c \in keys : TRUE
         IN  codes[c] + SumCounts(codes, keys \ {c})

\* the tracking step letting a later DEGRADED code replace UNHEALTHY
trackCodeLastWins(acc, ratio, codeStatus) ==
    [worstRatio |-> IF RatGT(ratio, acc.worstRatio) THEN ratio ELSE acc.worstRatio,
     status     |-> IF codeStatus = "UNHEALTHY" THEN "UNHEALTHY"
                    ELSE IF codeStatus = "DEGRADED" THEN "DEGRADED"
                    ELSE acc.status]

\* the body of `if isErrorCode(protocol, code)`: the worst ratio and status so far
trackCode(acc, ratio, codeStatus) ==
    [worstRatio |-> IF RatGT(ratio, acc.worstRatio) THEN ratio ELSE acc.worstRatio,
     status     |-> IF codeStatus = "UNHEALTHY" THEN "UNHEALTHY"
                    ELSE IF codeStatus = "DEGRADED" /\ acc.status = "HEALTHY" THEN "DEGRADED"
                    ELSE acc.status]

trackRatio(acc, protocol, code, ratio) ==
    trackCode(acc, ratio, getStatusForCodeRatio(protocol, code, ratio))

\* the inner loop of processRequests: one protocol, codes visited in codeOrder
RECURSIVE processCodes(_, _, _, _, _)
processCodes(protocol, codes, totalForProtocol, codeOrder, acc) ==
    IF codeOrder = << >> THEN acc
    ELSE processCodes(protocol, codes, totalForProtocol, Tail(codeOrder),
                      IF isErrorCode(protocol, Head(codeOrder))
                      THEN trackRatio(acc, protocol, Head(codeOrder),
                                      Rat(codes[Head(codeOrder)], totalForProtocol))
                      ELSE acc)

\* one protocol of processRequests, its codes summing to totalForProtocol
\* and visited in codeOrder
processProtocol(protocol, codes, totalForProtocol, codeOrder, acc) ==
    IF totalForProtocol = 0 THEN acc
    ELSE processCodes(protocol, codes, totalForProtocol, codeOrder, acc)

\* the closure processRequests of evaluateRequestHealth, the protocols
\* visited in protocolOrder and the codes of protocol p in codeOrders[p]
RECURSIVE processRequests(_, _, _, _)
processRequests(requests, protocolOrder, codeOrders, acc) ==
    IF protocolOrder = << >> THEN acc
    ELSE processRequests(requests, Tail(protocolOrder), codeOrders,
                         processProtocol(Head(protocolOrder), requests[Head(protocolOrder)],
                                         SumCounts(requests[Head(protocolOrder)],
                                                   DOMAIN requests[Head(protocolOrder)]),
                                         codeOrders[Head(protocolOrder)],
                                         acc))

\* every way the two range loops may visit one direction's protocols and codes
directionOrders(requests) ==
    [protocols : Perms(DOMAIN requests),
     codes : {o \in [DOMAIN requests -> UNION {Perms(DOMAIN requests[q]) : q \in DOMAIN requests}] :
                 \A p \in DOMAIN requests : o[p] \in Perms(DOMAIN requests[p])}]

\* one of them
directionOrder(requests) ==
    [protocols |-> SetToSeq(DOMAIN requests),
     codes     |-> [p \in DOMAIN requests |-> SetToSeq(DOMAIN requests[p])]]

\* evaluateRequestHealth with the visiting orders of its range loops given
evaluateRequestHealthIn(req, inOrder, outOrder) ==
    processRequests(req.Outbound, outOrder.protocols, outOrder.codes,
                    processRequests(req.Inbound, inOrder.protocols, inOrder.codes,
                                    [status |-> "HEALTHY", worstRatio |-> RatZero]))

\* evaluateRequestHealth; its result is the same for every visiting order
evaluateRequestHealth(req) ==
    evaluateRequestHealthIn(req, directionOrder(req.Inbound), directionOrder(req.Outbound))

\* totalRequests += count and, for an error code, errorRequests += count
addCounts(sums, protocol, codes) ==
    [total  |-> sums.total + SumCounts(codes, DOMAIN codes),
     errors |-> sums.errors + SumCounts(codes, {c \in DOMAIN codes : isErrorCode(protocol, c)})]

\* [total, errors] request counts of one direction
RECURSIVE CountDirection(_, _)
CountDirection(requests, protocols) ==
    IF protocols = {} THEN [total |-> 0, errors |-> 0]
    ELSE addCounts(CountDirection(requests, protocols \ {CHOOSE p \in protocols : TRUE}),
                   CHOOSE p \in protocols : TRUE,
                   requests[CHOOSE p \in protocols : TRUE])

errorRatio(errorRequests, totalRequests) ==
    IF totalRequests = 0 THEN RatZero ELSE Rat(errorRequests, totalRequests)

sumDirections(inb, out) ==
    errorRatio(inb.errors + out.errors, inb.total + out.total)

calculateErrorRate(req) ==
    sumDirections(CountDirection(req.Inbound, DOMAIN req.Inbound),
                  CountDirection(req.Outbound, DOMAIN req.Outbound))

hasAnyRequests(req) ==
    \/ \E p \in DOMAIN req.Inbound : \E c \in DOMAIN req.Inbound[p] : req.Inbound[p][c] > 0
    \/ \E p \in DOMAIN req.Outbound : \E c \in DOMAIN req.Outbound[p] : req.Outbound[p][c] > 0

\* ------------------------------------------------------------------------
\* Issue strings (fmt.Sprintf results) as tuples: the text and its arguments
\* ------------------------------------------------------------------------
NoIssue ==
    << >>

IssueNoWorkloads ==
    <<"no workloads found">>

IssueScaledToZero ==
    <<"scaled to 0 replicas">>

\* "%d/%d replicas available"
IssueReplicas(available, desired) ==
    <<"replicas available", available, desired>>

\* "%d/%d proxies synced"
IssueProxies(synced, available) ==
    <<"proxies synced", synced, available>>

\* the hundredths printed by "%.2f" for the rational x: round to nearest, ties to even
FormatHundredths(x) ==
    LET n == x[1] * 100
        q == n \div x[2]
        r == n % x[2]
    IN  IF 2 * r > x[2] THEN q + 1
        ELSE IF 2 * r < x[2] THEN q
        ELSE IF q % 2 = 0 THEN q ELSE q + 1

\* "error rate: %.2f%%" of errorRate*100
IssueErrorRate(errorRate) ==
    <<"error rate", FormatHundredths(RatTimesInt(errorRate, 100))>>

\* ------------------------------------------------------------------------
\* Health Classifier
\* ------------------------------------------------------------------------
\* `if ws.AvailableReplicas < ws.DesiredReplicas` of the loop in evaluateAppHealth
appReplicaCheck(ws, acc) ==
    IF ws.AvailableReplicas < ws.DesiredReplicas
    THEN [issue |-> IssueReplicas(ws.AvailableReplicas, ws.DesiredReplicas),
          workloadStatus |-> IF ws.AvailableReplicas = 0 THEN "UNHEALTHY"
                             ELSE IF acc.workloadStatus # "UNHEALTHY" THEN "DEGRADED"
                             ELSE acc.workloadStatus]
    ELSE acc

\* `if ws.SyncedProxies >= 0 && ws.SyncedProxies < ws.AvailableReplicas`
proxyCheck(ws, acc) ==
    IF ws.SyncedProxies >= 0 /\ ws.SyncedProxies < ws.AvailableReplicas
    THEN [issue |-> IF acc.issue = NoIssue
                    THEN IssueProxies(ws.SyncedProxies, ws.AvailableReplicas)
                    ELSE acc.issue,
          workloadStatus |-> IF acc.workloadStatus = "HEALTHY"
                             THEN "DEGRADED" ELSE acc.workloadStatus]
    ELSE acc

\* the body of the loop over app.WorkloadStatuses; acc = [workloadStatus, issue]
appWorkloadStep(ws, acc) ==
    IF ws.DesiredReplicas = 0
    THEN [workloadStatus |-> "NOT_READY", issue |-> IssueScaledToZero]
    ELSE proxyCheck(ws, appReplicaCheck(ws, acc))

RECURSIVE appWorkloadLoop(_, _)
appWorkloadLoop(statuses, acc) ==
    IF statuses = << >> THEN acc
    ELSE appWorkloadLoop(Tail(statuses), appWorkloadStep(Head(statuses), acc))

\* the error-rate issue and the merge that end evaluateAppHealth and evaluateWorkloadHealth
mergeWithRequests(wl, rh) ==
    [status |-> mergeHealthStatus(wl.workloadStatus, rh.status),
     issue  |-> IF RatGT(rh.worstRatio, RatZero) /\ wl.issue = NoIssue
                THEN IssueErrorRate(rh.worstRatio) ELSE wl.issue]

evaluateAppHealth(app) ==
    IF Len(app.WorkloadStatuses) = 0
    THEN [status |-> "UNKNOWN", issue |-> IssueNoWorkloads]
    ELSE mergeWithRequests(appWorkloadLoop(app.WorkloadStatuses,
                                           [workloadStatus |-> "HEALTHY", issue |-> NoIssue]),
                           evaluateRequestHealth(app.Requests))

\* the status and the issue of a service with traffic
serviceResult(rh) ==
    [status |-> rh.status,
     issue  |-> IF RatGT(rh.worstRatio, RatZero) THEN IssueErrorRate(rh.worstRatio) ELSE NoIssue]

\* the service classifier rating a service without traffic like any other
evaluateServiceHealthAlways(svc) ==
    serviceResult(evaluateRequestHealth(svc.Requests))

evaluateServiceHealth(svc) ==
    IF ~hasAnyRequests(svc.Requests)
    THEN [status |-> "UNKNOWN", issue |-> NoIssue]
    ELSE serviceResult(evaluateRequestHealth(svc.Requests))

\* a nil *WorkloadStatus
Nil ==
    [nil |-> TRUE]

\* a faulty variant of workloadReplicaCheck: any shortfall of replicas is UNHEALTHY
workloadReplicaCheckStrict(ws) ==
    IF ws.DesiredReplicas = 0
    THEN [workloadStatus |-> "NOT_READY", issue |-> IssueScaledToZero]
    ELSE IF ws.AvailableReplicas < ws.DesiredReplicas
    THEN [workloadStatus |-> "UNHEALTHY",
          issue |-> IssueReplicas(ws.AvailableReplicas, ws.DesiredReplicas)]
    ELSE [workloadStatus |-> "HEALTHY", issue |-> NoIssue]

\* the first if/else-if of `if wl.WorkloadStatus != nil`
workloadReplicaCheck(ws) ==
    IF ws.DesiredReplicas = 0
    THEN [workloadStatus |-> "NOT_READY", issue |-> IssueScaledToZero]
    ELSE IF ws.AvailableReplicas < ws.DesiredReplicas
    THEN [workloadStatus |-> IF ws.AvailableReplicas = 0 THEN "UNHEALTHY" ELSE "DEGRADED",
          issue |-> IssueReplicas(ws.AvailableReplicas, ws.DesiredReplicas)]
    ELSE [workloadStatus |-> "HEALTHY", issue |-> NoIssue]

\* workloadStatus and issue after the `if wl.WorkloadStatus != nil` block
workloadStatusCheck(ws) ==
    IF ws = Nil
    THEN [workloadStatus |-> "HEALTHY", issue |-> NoIssue]
    ELSE proxyCheck(ws, workloadReplicaCheck(ws))

evaluateWorkloadHealth(wl) ==
    IF ~hasAnyRequests(wl.Requests) /\ wl.WorkloadStatus = Nil
    THEN [status |-> "UNKNOWN", issue |-> NoIssue]
    ELSE mergeWithRequests(workloadStatusCheck(wl.WorkloadStatus),
                           evaluateRequestHealth(wl.Requests))

\* ------------------------------------------------------------------------
\* Aggregator roll-up
\* ------------------------------------------------------------------------
EntityTypes ==
    {"app", "service", "workload"}

ZeroCounts ==
    [Total |-> 0, Healthy |-> 0, Degraded |-> 0, Unhealthy |-> 0, NotReady |-> 0]

ZeroEntityCounts ==
    [Apps |-> ZeroCounts, Services |-> ZeroCounts, Workloads |-> ZeroCounts]

ZeroNamespaceSummary ==
    [Status |-> "", Availability |-> RatZero, ErrorRate |-> RatZero,
     Apps |-> ZeroCounts, Services |-> ZeroCounts, Workloads |-> ZeroCounts]

\* Total++ followed by the switch on status
countEntity(hc, status) ==
    LET t == [hc EXCEPT !.Total = @ + 1]
    IN  CASE status = "HEALTHY"   -> [t EXCEPT !.Healthy = @ + 1]
          [] status = "NOT_READY" -> [t EXCEPT !.NotReady = @ + 1]
          [] status = "DEGRADED"  -> [t EXCEPT !.Degraded = @ + 1]
          [] status = "UNHEALTHY" -> [t EXCEPT !.Unhealthy = @ + 1]
          [] OTHER                -> t

classifyEntity(type, entity) ==
    CASE type = "app"      -> evaluateAppHealth(entity)
      [] type = "service"  -> evaluateServiceHealth(entity)
      [] type = "workload" -> evaluateWorkloadHealth(entity)

\* the HealthCounts field of EntityCounts and of NamespaceSummary for an entity type
typeField(type) ==
    CASE type = "app"      -> "Apps"
      [] type = "service"  -> "Services"
      [] type = "workload" -> "Workloads"

\* a faulty variant of recordEntity: a record is appended whatever the status
recordEntityAlways(acc, type, ns, name, res, errorRate) ==
    [EntityCounts     |-> [acc.EntityCounts EXCEPT ![typeField(type)] = countEntity(@, res.status)],
     nsSummary        |-> [acc.nsSummary EXCEPT ![typeField(type)] = countEntity(@, res.status),
                                                !.ErrorRate = RatAdd(@, errorRate)],
     NamespaceSummary |-> acc.NamespaceSummary,
     TopUnhealthy     |-> Append(acc.TopUnhealthy,
                                 [Type |-> type, Namespace |-> ns, Name |-> name,
                                  Status |-> res.status, Issue |-> res.issue,
                                  ErrorRate |-> errorRate])]

\* the body of one `for name, entity := range nsEntities` loop, the entity rated res
recordEntity(acc, type, ns, name, res, errorRate) ==
    [EntityCounts     |-> [acc.EntityCounts EXCEPT ![typeField(type)] = countEntity(@, res.status)],
     nsSummary        |-> [acc.nsSummary EXCEPT ![typeField(type)] = countEntity(@, res.status),
                                                !.ErrorRate = RatAdd(@, errorRate)],
     NamespaceSummary |-> acc.NamespaceSummary,
     TopUnhealthy     |-> IF res.status = "UNHEALTHY"
                          THEN Append(acc.TopUnhealthy,
                                      [Type |-> type, Namespace |-> ns, Name |-> name,
                                       Status |-> res.status, Issue |-> res.issue,
                                       ErrorRate |-> errorRate])
                          ELSE acc.TopUnhealthy]

\* one `for name, entity := range nsEntities` loop of computeHealthSummary;
\* acc = [EntityCounts, nsSummary, NamespaceSummary, TopUnhealthy], order = the visiting order
RECURSIVE processEntities(_, _, _, _, _)
processEntities(type, ns, entities, order, acc) ==
    IF order = << >> THEN acc
    ELSE processEntities(type, ns, entities, Tail(order),
                         recordEntity(acc, type, ns, Head(order),
                                      classifyEntity(type, entities[Head(order)]),
                                      calculateErrorRate(entities[Head(order)].Requests)))

\* a faulty variant of computeNamespaceStatus: half of the entities unhealthy already counts
computeNamespaceStatusAtHalf(ns) ==
    LET totalUnhealthy == ns.Apps.Unhealthy + ns.Services.Unhealthy + ns.Workloads.Unhealthy
        totalEntities  == ns.Apps.Total + ns.Services.Total + ns.Workloads.Total
    IN  IF totalEntities = 0 THEN "UNKNOWN"
        ELSE IF totalUnhealthy = 0 /\ RatLT(ns.ErrorRate, <<1, 100>>) THEN "HEALTHY"
        ELSE IF totalUnhealthy >= totalEntities \div 2 \/ RatGT(ns.ErrorRate, <<5, 100>>)
        THEN "UNHEALTHY"
        ELSE "DEGRADED"

computeNamespaceStatus(ns) ==
    LET totalUnhealthy == ns.Apps.Unhealthy + ns.Services.Unhealthy + ns.Workloads.Unhealthy
        totalEntities  == ns.Apps.Total + ns.Services.Total + ns.Workloads.Total
    IN  IF totalEntities = 0 THEN "UNKNOWN"
        ELSE IF totalUnhealthy = 0 /\ RatLT(ns.ErrorRate, <<1, 100>>) THEN "HEALTHY"
        ELSE IF totalUnhealthy > totalEntities \div 2 \/ RatGT(ns.ErrorRate, <<5, 100>>)
        THEN "UNHEALTHY"
        ELSE "DEGRADED"

\* a faulty variant of computeAvailability: a degraded entity counts as a healthy one
computeAvailabilityDegradedFull(ns) ==
    LET total    == ns.Apps.Total + ns.Services.Total + ns.Workloads.Total
        healthy  == ns.Apps.Healthy + ns.Services.Healthy + ns.Workloads.Healthy
        degraded == ns.Apps.Degraded + ns.Services.Degraded + ns.Workloads.Degraded
    IN  IF total = 0 THEN <<100, 1>>
        ELSE Rat((healthy + degraded) * 100, total)

computeAvailability(ns) ==
    LET total    == ns.Apps.Total + ns.Services.Total + ns.Workloads.Total
        healthy  == ns.Apps.Healthy + ns.Services.Healthy + ns.Workloads.Healthy
        degraded == ns.Apps.Degraded + ns.Services.Degraded + ns.Workloads.Degraded
    IN  IF total = 0 THEN <<100, 1>>
        ELSE Rat((2 * healthy + degraded) * 100, 2 * total)

\* a faulty variant of computeOverallStatus: the half of an odd total is rounded up
computeOverallStatusHalfUp(counts) ==
    LET total     == counts.Apps.Total + counts.Services.Total + counts.Workloads.Total
        unhealthy == counts.Apps.Unhealthy + counts.Services.Unhealthy
                     + counts.Workloads.Unhealthy
        degraded  == counts.Apps.Degraded + counts.Services.Degraded
                     + counts.Workloads.Degraded
    IN  IF total = 0 THEN "UNKNOWN"
        ELSE IF unhealthy > 0
        THEN IF unhealthy > (total + 1) \div 2 THEN "UNHEALTHY" ELSE "DEGRADED"
        ELSE IF degraded > 0 THEN "DEGRADED"
        ELSE "HEALTHY"

\* a faulty variant of computeOverallStatus: degraded entities are not looked at
computeOverallStatusNoDegraded(counts) ==
    LET total     == counts.Apps.Total + counts.Services.Total + counts.Workloads.Total
        unhealthy == counts.Apps.Unhealthy + counts.Services.Unhealthy
                     + counts.Workloads.Unhealthy
    IN  IF total = 0 THEN "UNKNOWN"
        ELSE IF unhealthy > 0
        THEN IF unhealthy > total \div 2 THEN "UNHEALTHY" ELSE "DEGRADED"
        ELSE "HEALTHY"

computeOverallStatus(counts) ==
    LET total     == counts.Apps.Total + counts.Services.Total + counts.Workloads.Total
        unhealthy == counts.Apps.Unhealthy + counts.Services.Unhealthy
                     + counts.Workloads.Unhealthy
        degraded  == counts.Apps.Degraded + counts.Services.Degraded
                     + counts.Workloads.Degraded
    IN  IF total = 0 THEN "UNKNOWN"
        ELSE IF unhealthy > 0
        THEN IF unhealthy > total \div 2 THEN "UNHEALTHY" ELSE "DEGRADED"
        ELSE IF degraded > 0 THEN "DEGRADED"
        ELSE "HEALTHY"

\* a faulty variant of computeOverallAvailability: an empty mesh is rated 0
computeOverallAvailabilityEmptyZero(counts) ==
    Rat((2 * (counts.Apps.Healthy + counts.Services.Healthy + counts.Workloads.Healthy)
             + counts.Apps.Degraded + counts.Services.Degraded + counts.Workloads.Degraded) * 100,
        2 * (counts.Apps.Total + counts.Services.Total + counts.Workloads.Total) + 1)

computeOverallAvailability(counts) ==
    LET total    == counts.Apps.Total + counts.Services.Total + counts.Workloads.Total
        healthy  == counts.Apps.Healthy + counts.Services.Healthy + counts.Workloads.Healthy
        degraded == counts.Apps.Degraded + counts.Services.Degraded
                    + counts.Workloads.Degraded
    IN  IF total = 0 THEN <<100, 1>>
        ELSE Rat((2 * healthy + degraded) * 100, 2 * total)

RECURSIVE sumErrorRates(_, _)
sumErrorRates(nsSummaries, keys) ==
    IF keys = {} THEN RatZero
    ELSE LET k == CHOOSE k \in keys : TRUE
         IN  RatAdd(nsSummaries[k].ErrorRate, sumErrorRates(nsSummaries, keys \ {k}))

\* a faulty variant of computeTotalErrorRate: the mean of the namespaces' error rates
computeTotalErrorRateMean(nsSummaries) ==
    IF DOMAIN nsSummaries = {} THEN RatZero
    ELSE Rat(sumErrorRates(nsSummaries, DOMAIN nsSummaries)[1],
             sumErrorRates(nsSummaries, DOMAIN nsSummaries)[2] * Cardinality(DOMAIN nsSummaries))

computeTotalErrorRate(nsSummaries) ==
    sumErrorRates(nsSummaries, DOMAIN nsSummaries)

\* the inner loop of sortUnhealthyByImpact: j from i+1 to len-1 (1-based here)
RECURSIVE sortInner(_, _, _)
sortInner(u, i, j) ==
    IF j > Len(u) THEN u
    ELSE IF RatGT(u[j].ErrorRate, u[i].ErrorRate)
         THEN sortInner([u EXCEPT ![i] = u[j], ![j] = u[i]], i, j + 1)
         ELSE sortInner(u, i, j + 1)

RECURSIVE sortOuter(_, _)
sortOuter(u, i) ==
    IF i > Len(u) THEN u ELSE sortOuter(sortInner(u, i, i + 1), i + 1)

\* a faulty variant of sortUnhealthyByImpact: only the first pass is made
sortUnhealthyOnePass(unhealthy) ==
    sortInner(unhealthy, 1, 2)

sortUnhealthyByImpact(unhealthy) ==
    sortOuter(unhealthy, 1)

\* len(summary.TopUnhealthy) > 10 => summary.TopUnhealthy[:10]
TopLimit ==
    10

truncateTop(u) ==
    IF Len(u) > TopLimit THEN SubSeq(u, 1, TopLimit) ELSE u

\* a faulty variant of namespaceKeys: the service payload's namespaces are not collected
namespaceKeysNoServices(appHealth, svcHealth, wlHealth) ==
    DOMAIN appHealth.AppHealth \cup DOMAIN wlHealth.WorkloadHealth

\* nsSet: the keys of the three namespace maps
namespaceKeys(appHealth, svcHealth, wlHealth) ==
    DOMAIN appHealth.AppHealth \cup DOMAIN svcHealth.ServiceHealth
        \cup DOMAIN wlHealth.WorkloadHealth

\* the entity maps that computeHealthSummary ranges over, by <<type, namespace>>
entityMaps(appHealth, svcHealth, wlHealth) ==
    [c \in ({"app"} \X DOMAIN appHealth.AppHealth)
           \cup ({"service"} \X DOMAIN svcHealth.ServiceHealth)
           \cup ({"workload"} \X DOMAIN wlHealth.WorkloadHealth) |->
        CASE c[1] = "app"      -> appHealth.AppHealth[c[2]]
          [] c[1] = "service"  -> svcHealth.ServiceHealth[c[2]]
          [] c[1] = "workload" -> wlHealth.WorkloadHealth[c[2]]]

\* every way `range` may order the keys of every entity map
RECURSIVE rangeOrders(_, _)
rangeOrders(maps, cells) ==
    IF cells = {} THEN {<< >>}
    ELSE LET c == CHOOSE c \in cells : TRUE
         IN  {(c :> p) @@ f : p \in Perms(DOMAIN maps[c]), f \in rangeOrders(maps, cells \ {c})}

\* `if nsEntities, ok := health[ns]; ok { for ... }` for one entity type
processType(type, ns, maps, entOrder, acc) ==
    IF <<type, ns>> \in DOMAIN maps
    THEN processEntities(type, ns, maps[<<type, ns>>], entOrder[<<type, ns>>], acc)
    ELSE acc

\* nsSummary := NamespaceSummary{}
openNamespace(acc) ==
    [EntityCounts |-> acc.EntityCounts, nsSummary |-> ZeroNamespaceSummary,
     NamespaceSummary |-> acc.NamespaceSummary, TopUnhealthy |-> acc.TopUnhealthy]

\* nsSummary.Status, nsSummary.Availability and summary.NamespaceSummary[ns] = nsSummary
closeNamespace(ns, acc) ==
    [EntityCounts |-> acc.EntityCounts,
     NamespaceSummary |->
        (ns :> [acc.nsSummary EXCEPT !.Status = computeNamespaceStatus(acc.nsSummary),
                                     !.Availability = computeAvailability(acc.nsSummary)])
        @@ acc.NamespaceSummary,
     TopUnhealthy |-> acc.TopUnhealthy]

\* the body of `for ns := range nsSet`; acc = [EntityCounts, NamespaceSummary, TopUnhealthy]
processNamespace(ns, maps, entOrder, acc) ==
    closeNamespace(ns,
        processType("workload", ns, maps, entOrder,
            processType("service", ns, maps, entOrder,
                processType("app", ns, maps, entOrder, openNamespace(acc)))))

RECURSIVE namespaceLoop(_, _, _, _)
namespaceLoop(nsOrder, maps, entOrder, acc) ==
    IF nsOrder = << >> THEN acc
    ELSE namespaceLoop(Tail(nsOrder), maps, entOrder,
                       processNamespace(Head(nsOrder), maps, entOrder, acc))

\* the summary fields computed after the namespace loop
finishSummary(nsSet, agg, rateInterval, now) ==
    [OverallStatus    |-> computeOverallStatus(agg.EntityCounts),
     Availability     |-> computeOverallAvailability(agg.EntityCounts),
     TotalErrorRate   |-> computeTotalErrorRate(agg.NamespaceSummary),
     NamespaceCount   |-> Cardinality(nsSet),
     EntityCounts     |-> agg.EntityCounts,
     NamespaceSummary |-> agg.NamespaceSummary,
     TopUnhealthy     |-> truncateTop(sortUnhealthyByImpact(agg.TopUnhealthy)),
     Timestamp        |-> now,
     RateInterval     |-> rateInterval]

\* computeHealthSummary, with the time read by time.Now() and the orders in
\* which the range loops visit nsSet and the entity maps as parameters
computeHealthSummary(appHealth, svcHealth, wlHealth, rateInterval, now, nsOrder, entOrder) ==
    finishSummary(namespaceKeys(appHealth, svcHealth, wlHealth),
                  namespaceLoop(nsOrder, entityMaps(appHealth, svcHealth, wlHealth), entOrder,
                                [EntityCounts |-> ZeroEntityCounts,
                                 NamespaceSummary |-> EmptyMap,
                                 TopUnhealthy |-> << >>]),
                  rateInterval, now)

\* ------------------------------------------------------------------------
\* Sample health records: the entities the upstream health API reports
\* ------------------------------------------------------------------------
Code200 ==
    <<"2", "0", "0">>

Code404 ==
    <<"4", "0", "4">>

Code500 ==
    <<"5", "0", "0">>

WS(desired, available, synced) ==
    [DesiredReplicas |-> desired, AvailableReplicas |-> available, SyncedProxies |-> synced]

ReqNone ==
    [Inbound |-> EmptyMap, Outbound |-> EmptyMap]

ReqOK ==
    [Inbound |-> ("http" :> (Code200 :> 10)), Outbound |-> EmptyMap]

\* 20% of http 5xx
ReqFailing ==
    [Inbound |-> ("http" :> (Code200 :> 80 @@ Code500 :> 20)), Outbound |-> EmptyMap]

\* 0.5% of http 5xx
ReqLowErrors ==
    [Inbound |-> ("http" :> (Code200 :> 199 @@ Code500 :> 1)), Outbound |-> EmptyMap]

\* 5% of http 4xx, below the 4xx tolerance
ReqFewClientErrors ==
    [Inbound |-> ("http" :> (Code200 :> 95 @@ Code404 :> 5)), Outbound |-> EmptyMap]

\* 10% of grpc code 2 on the outbound side
ReqGrpcFailing ==
    [Inbound |-> EmptyMap, Outbound |-> ("grpc" :> (<<"0">> :> 90 @@ <<"2">> :> 10))]

SampleApps ==
    { [WorkloadStatuses |-> <<WS(1, 1, 1)>>, Requests |-> ReqOK],
      [WorkloadStatuses |-> << >>,           Requests |-> ReqFailing],
      [WorkloadStatuses |-> <<WS(2, 1, 1)>>, Requests |-> ReqNone],
      [WorkloadStatuses |-> <<WS(1, 1, 1)>>, Requests |-> ReqFailing],
      [WorkloadStatuses |-> <<WS(0, 0, 0)>>, Requests |-> ReqNone],
      [WorkloadStatuses |-> <<WS(1, 1, 1)>>, Requests |-> ReqLowErrors] }

SampleServices ==
    { [Requests |-> ReqOK], [Requests |-> ReqNone], [Requests |-> ReqFailing],
      [Requests |-> ReqFewClientErrors], [Requests |-> ReqGrpcFailing] }

SampleWorkloads ==
    { [WorkloadStatus |-> WS(1, 1, 1),  Requests |-> ReqOK],
      [WorkloadStatus |-> Nil,          Requests |-> ReqNone],
      [WorkloadStatus |-> WS(1, 0, 0),  Requests |-> ReqNone],
      [WorkloadStatus |-> WS(2, 2, 1),  Requests |-> ReqOK],
      [WorkloadStatus |-> WS(0, 0, -1), Requests |-> ReqNone] }

Samples(type) ==
    CASE type = "app"      -> SampleApps
      [] type = "service"  -> SampleServices
      [] type = "workload" -> SampleWorkloads

\* bounds of the payloads
MaxNamespaces ==
    2

MaxEntities ==
    2

MaxClock ==
    2

Namespaces ==
    1..MaxNamespaces

\* an entity of a payload: its type, its namespace and its health record
Entities ==
    UNION { [type : {t}, ns : Namespaces, health : Samples(t)] : t \in EntityTypes }

\* the namespace -> name -> health map of one type holding the entities of
\* the list ents (named by their position in their namespace) and, when
\* emptyNs is a namespace, an empty entity map under that key
RECURSIVE entitiesOf(_, _, _)
entitiesOf(ents, type, ns) ==
    IF ents = << >> THEN << >>
    ELSE IF Head(ents).type = type /\ Head(ents).ns = ns
         THEN <<Head(ents).health>> \o entitiesOf(Tail(ents), type, ns)
         ELSE entitiesOf(Tail(ents), type, ns)

namespaceMap(ents, type, emptyNs) ==
    [ns \in {n \in Namespaces : entitiesOf(ents, type, n) # << >> \/ n \in emptyNs} |->
        entitiesOf(ents, type, ns)]

\* a parsed ClustersNamespaceHealth answering a request of the given type
healthResponse(type, ents, emptyNs) ==
    [AppHealth      |-> IF type = "app" THEN namespaceMap(ents, type, emptyNs) ELSE EmptyMap,
     ServiceHealth  |-> IF type = "service" THEN namespaceMap(ents, type, emptyNs) ELSE EmptyMap,
     WorkloadHealth |-> IF type = "workload" THEN namespaceMap(ents, type, emptyNs) ELSE EmptyMap]

\* the entities in a fixed order
EntitySeq ==
    SetToSeq(Entities)

\* the least index that may follow the index list l
lastIndex(l) ==
    IF l = << >> THEN 1 ELSE l[Len(l)]

\* the nondecreasing lists of at most n indices of EntitySeq
RECURSIVE IndexLists(_)
IndexLists(n) ==
    IF n = 0 THEN {<< >>}
    ELSE IndexLists(n - 1)
         \cup UNION { {Append(l, i) : i \in lastIndex(l)..Len(EntitySeq)} :
                         l \in {x \in IndexLists(n - 1) : Len(x) = n - 1} }

\* lists of at most n entities; an entity is named by its position among those
\* of its type and namespace, so a reordered list is the same payload renamed
EntityLists(n) ==
    {[k \in 1..Len(l) |-> EntitySeq[l[k]]] : l \in IndexLists(n)}

\* ------------------------------------------------------------------------
\* Kiali.Health and executeRequest
\* ------------------------------------------------------------------------
NoError ==
    << >>

\* the Go empty string returned with an error, and held by an unwritten slot
NoData ==
    [kind |-> "empty"]

\* a body json.Unmarshal rejects: cut short by a failed read, or of another shape
TruncatedBody ==
    [kind |-> "truncated"]

MalformedBody ==
    [kind |-> "malformed"]

JsonBody(value) ==
    [kind |-> "json", value |-> value]

\* the error of validateAndGetBaseURL or url.Parse for the client's configuration
configError(config) ==
    CASE config = "unconfigured" -> <<"kiali server URL not configured">>
      [] config = "badurl"       -> <<"parse", "invalid URL">>
      [] OTHER                   -> NoError

\* the query Health builds: namespaces when non-empty, then every queryParams entry
healthQuery(namespaces, params) ==
    LET base == IF namespaces # "" THEN ("namespaces" :> namespaces) ELSE EmptyMap
    IN  params @@ base

\* the params map a fetch goroutine builds: {"type": type} overwritten by queryParams
fetchParams(type, callerParams) ==
    callerParams @@ ("type" :> type)

\* the error executeRequest returns for a response with a non-2xx status
statusError(code, body) ==
    IF body # NoData THEN <<"kiali API error", body>>
    ELSE <<"kiali API error: status", code>>

\* json.Unmarshal into ClustersNamespaceHealth
unmarshalError(data) ==
    IF data.kind = "json" THEN NoError
    ELSE IF data.kind = "empty" THEN <<"unexpected end of JSON input">>
    ELSE <<"invalid JSON", data.kind>>

\* the bodies the server may answer a request of the given type with
ResponseBodies(type) ==
    { JsonBody(healthResponse(type, << >>, {})), MalformedBody }
    \cup { JsonBody(healthResponse(type, <<e>>, {})) :
             e \in {x \in Entities : x.type = type /\ x.ns = 1
                       /\ x.health \in { [WorkloadStatuses |-> <<WS(1, 1, 1)>>, Requests |-> ReqFailing],
                                         [Requests |-> ReqOK],
                                         [WorkloadStatus |-> WS(1, 0, 0), Requests |-> ReqNone] }} }
    \cup { JsonBody(healthResponse(type, <<e, e>>, {})) :
             e \in {x \in Entities : x.type = type /\ x.ns = 1
                       /\ x.health = [WorkloadStatus |-> WS(1, 0, 0), Requests |-> ReqNone]} }

\* the arguments of a call
NamespaceArgs ==
    {"", "bookinfo"}

QueryParamArgs ==
    { EmptyMap,
      "rateInterval" :> "5m",
      "queryTime" :> "1700000000",
      "rateInterval" :> "5m" @@ "queryTime" :> "1700000000",
      "type" :> "service" }

Configs ==
    {"ok", "unconfigured", "badurl"}

\* ------------------------------------------------------------------------
\* State
\* ------------------------------------------------------------------------
VARIABLES
    config,         \* the client's configuration (NewFromConfig)
    pc,             \* position of MeshHealthSummary
    namespaces,     \* argument namespaces
    queryParams,    \* argument queryParams
    rateInterval,   \* local rateInterval
    ctxDone,        \* the caller's context is cancelled
    task,           \* position of each fetch goroutine
    resp,           \* the response a goroutine is reading the body of
    wg,             \* the WaitGroup counter
    fetches,        \* per goroutine: the queries of its Health calls
    data,           \* appHealthData, svcHealthData, wlHealthData
    errs,           \* errApp, errSvc, errWl
    parsed,         \* appHealth, svcHealth, wlHealth after json.Unmarshal
    summary,        \* local summary
    result,         \* what MeshHealthSummary returned
    cancelledInFlight, \* history: the context was cancelled while a request was in flight
    nsArg,          \* argument of the function applied on its own
    nsResult        \* its result

vars ==
    <<config, pc, namespaces, queryParams, rateInterval, ctxDone, task, resp, wg,
      fetches, data, errs, parsed, summary, result, cancelledInFlight, nsArg, nsResult>>

callVars ==
    <<config, pc, namespaces, queryParams, rateInterval, ctxDone, task, resp, wg,
      fetches, data, errs, parsed, summary, result, cancelledInFlight>>

None ==
    [none |-> TRUE]

\* ------------------------------------------------------------------------
\* MeshHealthSummary
\* ------------------------------------------------------------------------
IdleCall ==
    /\ pc = "idle"
    /\ namespaces = ""
    /\ queryParams = EmptyMap
    /\ rateInterval = ""
    /\ ctxDone = FALSE
    /\ task = [t \in EntityTypes |-> "unborn"]
    /\ resp = [t \in EntityTypes |-> None]
    /\ wg = 0
    /\ fetches = [t \in EntityTypes |-> << >>]
    /\ data = [t \in EntityTypes |-> NoData]
    /\ errs = [t \in EntityTypes |-> NoError]
    /\ parsed = None
    /\ summary = None
    /\ result = None
    /\ cancelledInFlight = FALSE

Init ==
    /\ config \in Configs
    /\ IdleCall
    /\ nsArg = None
    /\ nsResult = None

\* entry of MeshHealthSummary up to wg.Wait(): the default rate interval,
\* wg.Add(3) and the three go statements
Call ==
    /\ pc = "idle"
    /\ \E n \in NamespaceArgs, q \in QueryParamArgs :
          /\ namespaces' = n
          /\ queryParams' = q
          /\ rateInterval' = IF Lookup(q, "rateInterval", "") = ""
                             THEN "10m" ELSE q["rateInterval"]
    /\ wg' = 3
    /\ task' = [t \in EntityTypes |-> "ready"]
    /\ pc' = "waiting"
    /\ UNCHANGED <<config, ctxDone, resp, fetches, data, errs, parsed, summary, result,
                   cancelledInFlight, nsArg, nsResult>>

\* a faulty variant of finishFetch: every goroutine assigns the app slots
finishFetchSharedSlot(type, body, err) ==
    /\ data' = [data EXCEPT !["app"] = body]
    /\ errs' = [errs EXCEPT !["app"] = err]
    /\ task' = [task EXCEPT ![type] = "done"]
    /\ wg' = wg - 1

\* the goroutine returns: its two slots are assigned, then the deferred wg.Done()
finishFetch(type, body, err) ==
    /\ data' = [data EXCEPT ![type] = body]
    /\ errs' = [errs EXCEPT ![type] = err]
    /\ task' = [task EXCEPT ![type] = "done"]
    /\ wg' = wg - 1

\* a goroutine builds params and calls Health, which fails before any request
\* or builds the query and reaches client.Do
StartFetch(type) ==
    /\ task[type] = "ready"
    /\ fetches' = [fetches EXCEPT ![type] =
                      Append(@, healthQuery(namespaces, fetchParams(type, queryParams)))]
    /\ IF configError(config) # NoError
       THEN /\ finishFetch(type, NoData, configError(config))
            /\ UNCHANGED resp
       ELSE /\ task' = [task EXCEPT ![type] = "sent"]
            /\ UNCHANGED <<resp, data, errs, wg>>
    /\ UNCHANGED <<config, pc, namespaces, queryParams, rateInterval, ctxDone, parsed,
                   summary, result, cancelledInFlight, nsArg, nsResult>>

\* client.Do returns: the context's error, a transport error, or a response
\* whose body is still to be read
DoReturns(type) ==
    /\ task[type] = "sent"
    /\ \/ /\ ctxDone
          /\ finishFetch(type, NoData, <<"context canceled">>)
          /\ UNCHANGED resp
       \/ /\ ~ctxDone
          /\ finishFetch(type, NoData, <<"connection refused">>)
          /\ UNCHANGED resp
       \/ /\ ~ctxDone
          /\ \E code \in {200, 500} : resp' = [resp EXCEPT ![type] = [status |-> code]]
          /\ task' = [task EXCEPT ![type] = "reading"]
          /\ UNCHANGED <<data, errs, wg>>
    /\ UNCHANGED <<config, pc, namespaces, queryParams, rateInterval, ctxDone, fetches,
                   parsed, summary, result, cancelledInFlight, nsArg, nsResult>>

\* the bodies io.ReadAll may deliver; its error is discarded, so a read cut
\* short (by a cancelled context or a broken connection) is a shorter body
bodiesRead(type, status) ==
    IF status = 200
    THEN ResponseBodies(Lookup(fetches[type][1], "type", "app")) \cup {TruncatedBody}
    ELSE {[kind |-> "text", text |-> "Internal error"], NoData}

\* body, _ := io.ReadAll(resp.Body) and the status check of executeRequest
ReadBody(type) ==
    /\ task[type] = "reading"
    /\ \E body \in bodiesRead(type, resp[type].status) :
          IF resp[type].status < 200 \/ resp[type].status >= 300
          THEN finishFetch(type, NoData, statusError(resp[type].status, body))
          ELSE finishFetch(type, body, NoError)
    /\ resp' = [resp EXCEPT ![type] = None]
    /\ UNCHANGED <<config, pc, namespaces, queryParams, rateInterval, ctxDone, fetches,
                   parsed, summary, result, cancelledInFlight, nsArg, nsResult>>

\* the caller cancels ctx
Cancel ==
    /\ ~ctxDone
    /\ pc # "returned"
    /\ ctxDone' = TRUE
    /\ cancelledInFlight' = \E t \in EntityTypes : task[t] \in {"sent", "reading"}
    /\ UNCHANGED <<config, pc, namespaces, queryParams, rateInterval, task, resp, wg,
                   fetches, data, errs, parsed, summary, result, nsArg, nsResult>>

\* a faulty variant of WaitDone: the counter was raised by one less than the goroutines started
WaitDoneOneShort ==
    wg <= 1

\* wg.Wait() returns
WaitDone ==
    wg = 0

Join ==
    /\ pc = "waiting"
    /\ WaitDone
    /\ pc' = "joined"
    /\ UNCHANGED <<config, namespaces, queryParams, rateInterval, ctxDone, task, resp, wg,
                   fetches, data, errs, parsed, summary, result, cancelledInFlight,
                   nsArg, nsResult>>

\* a faulty variant of fetchError: errWl is never checked
fetchErrorNoWorkloadCheck(e) ==
    IF e["app"] # NoError THEN <<"failed to fetch", "app health", e["app"]>>
    ELSE IF e["service"] # NoError THEN <<"failed to fetch", "service health", e["service"]>>
    ELSE NoError

\* the three `if err != nil` checks after the join
fetchError(e) ==
    IF e["app"] # NoError THEN <<"failed to fetch", "app health", e["app"]>>
    ELSE IF e["service"] # NoError THEN <<"failed to fetch", "service health", e["service"]>>
    ELSE IF e["workload"] # NoError THEN <<"failed to fetch", "workload health", e["workload"]>>
    ELSE NoError

\* a faulty variant of parseError: every parse failure is reported as the app payload's
parseErrorAppLabel(d) ==
    IF unmarshalError(d["app"]) # NoError
    THEN <<"failed to parse", "app health", unmarshalError(d["app"])>>
    ELSE IF unmarshalError(d["service"]) # NoError
    THEN <<"failed to parse", "app health", unmarshalError(d["service"])>>
    ELSE IF unmarshalError(d["workload"]) # NoError
    THEN <<"failed to parse", "app health", unmarshalError(d["workload"])>>
    ELSE NoError

\* the three json.Unmarshal calls
parseError(d) ==
    IF unmarshalError(d["app"]) # NoError
    THEN <<"failed to parse", "app health", unmarshalError(d["app"])>>
    ELSE IF unmarshalError(d["service"]) # NoError
    THEN <<"failed to parse", "service health", unmarshalError(d["service"])>>
    ELSE IF unmarshalError(d["workload"]) # NoError
    THEN <<"failed to parse", "workload health", unmarshalError(d["workload"])>>
    ELSE NoError

returnError(e) ==
    /\ result' = [content |-> NoData, err |-> e]
    /\ pc' = "returned"

CheckErrors ==
    /\ pc = "joined"
    /\ IF fetchError(errs) # NoError
       THEN returnError(fetchError(errs))
       ELSE pc' = "fetched" /\ UNCHANGED result
    /\ UNCHANGED <<config, namespaces, queryParams, rateInterval, ctxDone, task, resp, wg,
                   fetches, data, errs, parsed, summary, cancelledInFlight, nsArg, nsResult>>

Parse ==
    /\ pc = "fetched"
    /\ IF parseError(data) # NoError
       THEN returnError(parseError(data)) /\ UNCHANGED parsed
       ELSE /\ parsed' = [t \in EntityTypes |-> data[t].value]
            /\ pc' = "parsed"
            /\ UNCHANGED result
    /\ UNCHANGED <<config, namespaces, queryParams, rateInterval, ctxDone, task, resp, wg,
                   fetches, data, errs, summary, cancelledInFlight, nsArg, nsResult>>

\* json.MarshalIndent of the summary: `omitempty` drops an empty topUnhealthy
\* list and a zero errorRate of an UnhealthyEntity
marshalEntity(u) ==
    IF u.ErrorRate = RatZero THEN [f \in DOMAIN u \ {"ErrorRate"} |-> u[f]] ELSE u

marshalSummary(s) ==
    LET top == [i \in 1..Len(s.TopUnhealthy) |-> marshalEntity(s.TopUnhealthy[i])]
    IN  IF Len(s.TopUnhealthy) = 0
        THEN JsonBody([f \in DOMAIN s \ {"TopUnhealthy"} |-> s[f]])
        ELSE JsonBody([s EXCEPT !.TopUnhealthy = top])

\* computeHealthSummary, json.MarshalIndent and the return
Summarize ==
    /\ pc = "parsed"
    /\ LET app  == parsed["app"]
           svc  == parsed["service"]
           wl   == parsed["workload"]
           maps == entityMaps(app, svc, wl)
       IN  \E now \in 1..MaxClock,
              nsOrder \in Perms(namespaceKeys(app, svc, wl)),
              entOrder \in rangeOrders(maps, DOMAIN maps) :
                 /\ summary' = computeHealthSummary(app, svc, wl, rateInterval, now,
                                                    nsOrder, entOrder)
                 /\ result' = [content |-> marshalSummary(summary'), err |-> NoError]
    /\ pc' = "returned"
    /\ UNCHANGED <<config, namespaces, queryParams, rateInterval, ctxDone, task, resp, wg,
                   fetches, data, errs, parsed, cancelledInFlight, nsArg, nsResult>>

\* a faulty variant of Return: the error slots outlive the call
ReturnKeepErrors ==
    /\ pc = "returned"
    /\ pc' = "idle"
    /\ UNCHANGED <<config, namespaces, queryParams, rateInterval, ctxDone, task, resp, wg,
                   fetches, data, errs, parsed, summary, result, cancelledInFlight,
                   nsArg, nsResult>>

\* the call has returned: its arguments and locals are gone, the client is
\* as it was, and the next call starts from zero-valued locals
Return ==
    /\ pc = "returned"
    /\ pc' = "idle"
    /\ namespaces' = ""
    /\ queryParams' = EmptyMap
    /\ rateInterval' = ""
    /\ ctxDone' = FALSE
    /\ task' = [t \in EntityTypes |-> "unborn"]
    /\ fetches' = [t \in EntityTypes |-> << >>]
    /\ data' = [t \in EntityTypes |-> NoData]
    /\ errs' = [t \in EntityTypes |-> NoError]
    /\ parsed' = None
    /\ summary' = None
    /\ result' = None
    /\ cancelledInFlight' = FALSE
    /\ UNCHANGED <<config, resp, wg, nsArg, nsResult>>

Next ==
    \/ Return
    \/ Call
    \/ \E t \in EntityTypes : StartFetch(t)
    \/ \E t \in EntityTypes : DoReturns(t)
    \/ \E t \in EntityTypes : ReadBody(t)
    \/ Cancel
    \/ Join
    \/ CheckErrors
    \/ Parse
    \/ Summarize

Spec ==
    Init /\ [][Next]_vars

\* ------------------------------------------------------------------------
\* computeHealthSummary on its own: the call has joined and parsed three
\* well-formed payloads holding at most MaxEntities entities in all
\* ------------------------------------------------------------------------
\* no empty entity map, or one under the key of namespace 1 in one payload
\* (the namespaces are interchangeable, the entity lists range over all of them)
EmptyKeyChoices ==
    {<< >>} \cup (EntityTypes \X {1})

emptyKeys(choice, type) ==
    IF choice # << >> /\ choice[1] = type THEN {choice[2]} ELSE {}

InitSummary ==
    /\ config = "ok"
    /\ pc = "parsed"
    /\ namespaces = ""
    /\ queryParams = EmptyMap
    /\ rateInterval = "10m"
    /\ ctxDone = FALSE
    /\ task = [t \in EntityTypes |-> "done"]
    /\ resp = [t \in EntityTypes |-> None]
    /\ wg = 0
    /\ fetches = [t \in EntityTypes |-> <<healthQuery(namespaces, fetchParams(t, queryParams))>>]
    /\ \E ents \in EntityLists(MaxEntities), choice \in EmptyKeyChoices :
          parsed = [t \in EntityTypes |-> healthResponse(t, ents, emptyKeys(choice, t))]
    /\ data = [t \in EntityTypes |-> JsonBody(parsed[t])]
    /\ errs = [t \in EntityTypes |-> NoError]
    /\ summary = None
    /\ result = None
    /\ cancelledInFlight = FALSE
    /\ nsArg = None
    /\ nsResult = None

NextSummary ==
    Summarize

SpecSummary ==
    InitSummary /\ [][NextSummary]_vars

\* ------------------------------------------------------------------------
\* computeHealthSummary on payloads with more unhealthy entities than the
\* summary lists: every entity map of two namespaces is absent, holds two
\* unhealthy entities, or an unhealthy and a healthy one; the unhealthy app
\* has 20% of 5xx, the unhealthy service 10% of 4xx and 10% of 5xx, the
\* unhealthy workload no replica
\* ------------------------------------------------------------------------
fullPayload(type, fill) ==
    LET bad  == CASE type = "app"      -> [WorkloadStatuses |-> <<WS(1, 1, 1)>>, Requests |-> ReqFailing]
                  [] type = "service"  -> [Requests |-> [Inbound |-> ("http" :> (Code200 :> 80 @@ Code404 :> 10 @@ Code500 :> 10)),
                                                        Outbound |-> EmptyMap]]
                  [] type = "workload" -> [WorkloadStatus |-> WS(1, 0, 0), Requests |-> ReqNone]
        good == CASE type = "app"      -> [WorkloadStatuses |-> <<WS(1, 1, 1)>>, Requests |-> ReqOK]
                  [] type = "service"  -> [Requests |-> ReqOK]
                  [] type = "workload" -> [WorkloadStatus |-> WS(1, 1, 1), Requests |-> ReqOK]
        nsMap == [ns \in {n \in {1, 2} : fill[<<type, n>>] # "absent"} |->
                     IF fill[<<type, ns>>] = "unhealthy" THEN <<bad, bad>> ELSE <<bad, good>>]
    IN  [AppHealth      |-> IF type = "app" THEN nsMap ELSE EmptyMap,
         ServiceHealth  |-> IF type = "service" THEN nsMap ELSE EmptyMap,
         WorkloadHealth |-> IF type = "workload" THEN nsMap ELSE EmptyMap]

InitFull ==
    /\ config = "ok"
    /\ pc = "parsed"
    /\ namespaces = ""
    /\ queryParams = EmptyMap
    /\ rateInterval = "10m"
    /\ ctxDone = FALSE
    /\ task = [t \in EntityTypes |-> "done"]
    /\ resp = [t \in EntityTypes |-> None]
    /\ wg = 0
    /\ fetches = [t \in EntityTypes |-> <<healthQuery(namespaces, fetchParams(t, queryParams))>>]
    /\ \E fill \in [EntityTypes \X {1, 2} -> {"absent", "unhealthy", "mixed"}] :
          parsed = [t \in EntityTypes |-> fullPayload(t, fill)]
    /\ data = [t \in EntityTypes |-> JsonBody(parsed[t])]
    /\ errs = [t \in EntityTypes |-> NoError]
    /\ summary = None
    /\ result = None
    /\ cancelledInFlight = FALSE
    /\ nsArg = None
    /\ nsResult = None

SpecFull ==
    InitFull /\ [][Summarize]_vars

\* ------------------------------------------------------------------------
\* computeNamespaceStatus and computeAvailability on their own
\* ------------------------------------------------------------------------
MaxCount ==
    4

ErrorRates ==
    { <<0, 1>>, <<1, 200>>, <<1, 100>>, <<3, 100>>, <<1, 20>>, <<3, 50>>, <<6, 5>> }

\* the summaries of namespaces with a unhealthy and b healthy apps, c unhealthy
\* and d degraded services, e scaled-down workloads and f workloads without data
NamespaceSummaryArgs ==
    { [ZeroNamespaceSummary EXCEPT
          !.ErrorRate = r,
          !.Apps = [ZeroCounts EXCEPT !.Total = a + b, !.Unhealthy = a, !.Healthy = b],
          !.Services = [ZeroCounts EXCEPT !.Total = c + d, !.Unhealthy = c, !.Degraded = d],
          !.Workloads = [ZeroCounts EXCEPT !.Total = e + f, !.NotReady = e]] :
        a \in 0..MaxCount, b \in 0..MaxCount, c \in 0..MaxCount, d \in 0..MaxCount,
        e \in 0..MaxCount, f \in 0..1, r \in ErrorRates }

InitNamespace ==
    /\ config = "ok"
    /\ IdleCall
    /\ nsArg \in NamespaceSummaryArgs
    /\ nsResult = None

\* nsSummary.Status = computeNamespaceStatus(nsSummary);
\* nsSummary.Availability = computeAvailability(nsSummary)
RateNamespace ==
    /\ nsResult = None
    /\ nsResult' = [nsArg EXCEPT !.Status = computeNamespaceStatus(nsArg),
                                 !.Availability = computeAvailability(nsArg)]
    /\ UNCHANGED <<callVars, nsArg>>

NextNamespace ==
    RateNamespace

SpecNamespace ==
    InitNamespace /\ [][NextNamespace]_vars

\* ------------------------------------------------------------------------
\* The ratings of a mesh of one namespace: the namespace's status and
\* availability, then computeOverallStatus and computeOverallAvailability
\* ------------------------------------------------------------------------
\* summary.EntityCounts of a mesh whose only namespace has the counts of ns
meshCounts(ns) ==
    [Apps |-> ns.Apps, Services |-> ns.Services, Workloads |-> ns.Workloads]

RateMesh ==
    /\ nsResult = None
    /\ nsResult' = [NamespaceSummary |->
                        [nsArg EXCEPT !.Status = computeNamespaceStatus(nsArg),
                                      !.Availability = computeAvailability(nsArg)],
                    OverallStatus |-> computeOverallStatus(meshCounts(nsArg)),
                    Availability  |-> computeOverallAvailability(meshCounts(nsArg))]
    /\ UNCHANGED <<callVars, nsArg>>

NextMesh ==
    RateMesh

SpecMesh ==
    InitNamespace /\ [][NextMesh]_vars

\* ------------------------------------------------------------------------
\* Properties
\* ------------------------------------------------------------------------
typeLabel(type) ==
    CASE type = "app"      -> "app health"
      [] type = "service"  -> "service health"
      [] type = "workload" -> "workload health"

AllFetchesDone ==
    \A t \in EntityTypes : task[t] = "done"

\* C1: MeshHealthSummary is past wg.Wait() (checking errors, parsing,
\* combining or returned) only when all three fetch goroutines have completed.
Thm_C1 ==
    /\ pc \in {"joined", "fetched", "parsed", "returned"} => AllFetchesDone
    /\ (parsed # None \/ summary # None \/ result # None) => AllFetchesDone

Wit_C1 ==
    /\ pc = "returned"
    /\ result.err = NoError
    /\ AllFetchesDone

\* C2: when at least one fetch failed, the call returns an error and no
\* content and computes no summary; the error is "failed to fetch <type>
\* health" with the cause of a fetch of that type that did fail, and it names
\* "app health" when only the app fetch failed.
Thm_C2 ==
    (pc = "returned" /\ \E t \in EntityTypes : errs[t] # NoError) =>
        /\ result.content = NoData
        /\ summary = None
        /\ \E t \in EntityTypes :
              /\ errs[t] # NoError
              /\ result.err = <<"failed to fetch", typeLabel(t), errs[t]>>
        /\ (errs["app"] # NoError /\ errs["service"] = NoError /\ errs["workload"] = NoError)
              => result.err[2] = "app health"

Wit_C2 ==
    /\ pc = "returned"
    /\ errs["app"] = NoError
    /\ errs["service"] = NoError
    /\ errs["workload"] = <<"kiali API error: status", 500>>

callerParamsCarried(t) ==
    \A k \in DOMAIN queryParams : Lookup(fetches[t][1], k, "") = queryParams[k]

sameNamespaceFilter(t) ==
    Lookup(fetches[t][1], "namespaces", "") = namespaces

\* C3: a returned call has issued exactly one fetch per type, with
\* type=app, type=service and type=workload, each with the namespace filter
\* and every caller-supplied parameter.
Cex_C3 ==
    pc = "returned" =>
        \A t \in EntityTypes :
            /\ Len(fetches[t]) = 1
            /\ fetches[t][1]["type"] = t
            /\ sameNamespaceFilter(t)
            /\ callerParamsCarried(t)

\* C4: the rateInterval echoed by a returned summary is the rateInterval
\* parameter sent on each of the three fetches.
Cex_C4 ==
    (pc = "returned" /\ result.err = NoError) =>
        \A t \in EntityTypes :
            Lookup(fetches[t][1], "rateInterval", "") = summary.RateInterval

\* C5: a call whose context was cancelled while a request was in flight
\* returns an error, never a summary.
Cex_C5 ==
    (pc = "returned" /\ cancelledInFlight) => result.err # NoError

allCounts(s) ==
    {s.EntityCounts.Apps, s.EntityCounts.Services, s.EntityCounts.Workloads}
        \cup UNION { {s.NamespaceSummary[n].Apps, s.NamespaceSummary[n].Services,
                      s.NamespaceSummary[n].Workloads} : n \in DOMAIN s.NamespaceSummary }

\* C6: in a computed summary every HealthCounts record has
\* total = healthy + degraded + unhealthy + notReady.
Cex_C6 ==
    summary # None =>
        \A hc \in allCounts(summary) :
            hc.Total = hc.Healthy + hc.Degraded + hc.Unhealthy + hc.NotReady

classified(ns) ==
    LET sum(hc) == hc.Healthy + hc.Degraded + hc.Unhealthy + hc.NotReady
    IN  sum(ns.Apps) + sum(ns.Services) + sum(ns.Workloads)

\* the payload without the entities classified UNKNOWN
knownOnly(type, nsMap) ==
    [n \in DOMAIN nsMap |->
        [name \in {x \in DOMAIN nsMap[n] : classifyEntity(type, nsMap[n][x]).status # "UNKNOWN"}
            |-> nsMap[n][name]]]

summaryOfKnown ==
    LET app  == [parsed["app"] EXCEPT !.AppHealth = knownOnly("app", @)]
        svc  == [parsed["service"] EXCEPT !.ServiceHealth = knownOnly("service", @)]
        wl   == [parsed["workload"] EXCEPT !.WorkloadHealth = knownOnly("workload", @)]
        maps == entityMaps(app, svc, wl)
    IN  computeHealthSummary(app, svc, wl, rateInterval, 1,
                             SetToSeq(namespaceKeys(app, svc, wl)),
                             CHOOSE o \in rangeOrders(maps, DOMAIN maps) : TRUE)

\* C7: the statuses and availabilities of a computed summary are those of the
\* payloads without their UNKNOWN entities, and a namespace whose entities are
\* all UNKNOWN has status UNKNOWN and availability 100.
Cex_C7 ==
    summary # None =>
        /\ summary.OverallStatus = summaryOfKnown.OverallStatus
        /\ summary.Availability = summaryOfKnown.Availability
        /\ \A n \in DOMAIN summary.NamespaceSummary :
              /\ summary.NamespaceSummary[n].Status = summaryOfKnown.NamespaceSummary[n].Status
              /\ summary.NamespaceSummary[n].Availability
                    = summaryOfKnown.NamespaceSummary[n].Availability
              /\ classified(summary.NamespaceSummary[n]) = 0 =>
                    /\ summary.NamespaceSummary[n].Status = "UNKNOWN"
                    /\ summary.NamespaceSummary[n].Availability = <<100, 1>>

appKeys ==
    DOMAIN parsed["app"].AppHealth

svcKeys ==
    DOMAIN parsed["service"].ServiceHealth

wlKeys ==
    DOMAIN parsed["workload"].WorkloadHealth

\* C8: the keys of namespaceSummary are exactly the namespace keys of the
\* app, service and workload payloads taken together, namespaceCount is their
\* number, and a namespace has all-zero counts for an entity type whose
\* payload does not have it.
Thm_C8 ==
    summary # None =>
        /\ DOMAIN summary.NamespaceSummary = appKeys \cup svcKeys \cup wlKeys
        /\ summary.NamespaceCount = Cardinality(appKeys \cup svcKeys \cup wlKeys)
        /\ \A n \in DOMAIN summary.NamespaceSummary :
              /\ n \notin appKeys => summary.NamespaceSummary[n].Apps = ZeroCounts
              /\ n \notin svcKeys => summary.NamespaceSummary[n].Services = ZeroCounts
              /\ n \notin wlKeys => summary.NamespaceSummary[n].Workloads = ZeroCounts

Wit_C8 ==
    /\ summary # None
    /\ \E n \in svcKeys :
          /\ n \notin appKeys \cup wlKeys
          /\ summary.NamespaceSummary[n].Services.Total > 0
          /\ summary.NamespaceSummary[n].Apps.Total = 0
    /\ summary.NamespaceCount = 2

nsUnhealthy ==
    nsArg.Apps.Unhealthy + nsArg.Services.Unhealthy + nsArg.Workloads.Unhealthy

nsEntities ==
    nsArg.Apps.Total + nsArg.Services.Total + nsArg.Workloads.Total

\* C9: computeNamespaceStatus is UNKNOWN for zero entities; else HEALTHY for
\* zero unhealthy entities and a summed error rate < 1%; else UNHEALTHY when
\* strictly more than half of the entities are unhealthy or the summed error
\* rate is > 5%; else DEGRADED.
Thm_C9 ==
    nsResult # None =>
        nsResult.Status =
            IF nsEntities = 0 THEN "UNKNOWN"
            ELSE IF nsUnhealthy = 0 /\ nsArg.ErrorRate[1] * 100 < nsArg.ErrorRate[2]
            THEN "HEALTHY"
            ELSE IF 2 * nsUnhealthy > nsEntities
                    \/ nsArg.ErrorRate[1] * 100 > 5 * nsArg.ErrorRate[2]
            THEN "UNHEALTHY"
            ELSE "DEGRADED"

Wit_C9 ==
    /\ nsResult # None
    /\ nsEntities = 10
    /\ nsUnhealthy = 5
    /\ nsArg.ErrorRate = <<1, 20>>
    /\ nsResult.Status = "DEGRADED"

meshTotal ==
    summary.EntityCounts.Apps.Total + summary.EntityCounts.Services.Total
        + summary.EntityCounts.Workloads.Total

meshUnhealthy ==
    summary.EntityCounts.Apps.Unhealthy + summary.EntityCounts.Services.Unhealthy
        + summary.EntityCounts.Workloads.Unhealthy

meshDegraded ==
    summary.EntityCounts.Apps.Degraded + summary.EntityCounts.Services.Degraded
        + summary.EntityCounts.Workloads.Degraded

meshHealthy ==
    summary.EntityCounts.Apps.Healthy + summary.EntityCounts.Services.Healthy
        + summary.EntityCounts.Workloads.Healthy

\* the mesh-wide counts and total error rate as a NamespaceSummary
meshAsNamespace ==
    [ZeroNamespaceSummary EXCEPT !.ErrorRate = summary.TotalErrorRate,
                                 !.Apps = summary.EntityCounts.Apps,
                                 !.Services = summary.EntityCounts.Services,
                                 !.Workloads = summary.EntityCounts.Workloads]

\* C10 as stated: overallStatus and availability are the namespace rules
\* applied to the mesh-wide counts and total error rate, and with exactly one
\* namespace they are that namespace's status and availability.
Cex_C10 ==
    summary # None =>
        /\ summary.OverallStatus = computeNamespaceStatus(meshAsNamespace)
        /\ summary.Availability = computeAvailability(meshAsNamespace)
        /\ \A n \in DOMAIN summary.NamespaceSummary :
              summary.NamespaceCount = 1 =>
                 /\ summary.OverallStatus = summary.NamespaceSummary[n].Status
                 /\ summary.Availability = summary.NamespaceSummary[n].Availability

\* C10 amended: availability is the namespace availability rule applied to
\* the mesh-wide counts; overallStatus is derived from the mesh-wide counts
\* alone, without the error rate: UNKNOWN for zero entities, UNHEALTHY when
\* more than half of them are unhealthy, DEGRADED when some entity is
\* unhealthy or degraded, else HEALTHY. With exactly one namespace the two
\* availabilities are equal, and the two statuses are equal whenever the
\* namespace's error rate is 0 and it has no degraded entity.
Thm_C10 ==
    summary # None =>
        /\ summary.Availability = computeAvailability(meshAsNamespace)
        /\ summary.OverallStatus =
              IF meshTotal = 0 THEN "UNKNOWN"
              ELSE IF 2 * meshUnhealthy > meshTotal THEN "UNHEALTHY"
              ELSE IF meshUnhealthy > 0 \/ meshDegraded > 0 THEN "DEGRADED"
              ELSE "HEALTHY"
        /\ \A n \in DOMAIN summary.NamespaceSummary :
              summary.NamespaceCount = 1 =>
                 /\ summary.Availability = summary.NamespaceSummary[n].Availability
                 /\ (summary.NamespaceSummary[n].ErrorRate = RatZero /\ meshDegraded = 0)
                       => summary.OverallStatus = summary.NamespaceSummary[n].Status

Wit_C10 ==
    /\ summary # None
    /\ summary.NamespaceCount = 1
    /\ meshTotal = 2
    /\ meshDegraded = 1
    /\ meshUnhealthy = 0
    /\ summary.OverallStatus = "DEGRADED"
    /\ \A n \in DOMAIN summary.NamespaceSummary : summary.NamespaceSummary[n].Status = "HEALTHY"

\* ------------------------------------------------------------------------
\* The ranking on its own: sortUnhealthyByImpact and the cut to ten entries,
\* applied to an accumulated list of unhealthy entities
\* ------------------------------------------------------------------------
MaxUnhealthy ==
    11

\* the error rates of the listed entities
SortRates ==
    { <<0, 1>>, <<1, 2>> }

\* the accumulated lists: the entity appended k-th is named k
UnhealthyLists(n) ==
    UNION { { [k \in 1..len |->
                [Type |-> "service", Namespace |-> 1, Name |-> k, Status |-> "UNHEALTHY",
                 Issue |-> NoIssue, ErrorRate |-> rates[k]]] :
              rates \in [1..len -> SortRates] } : len \in 0..n }

InitSort ==
    /\ config = "ok"
    /\ IdleCall
    /\ \E l \in UnhealthyLists(MaxUnhealthy) : nsArg = [TopUnhealthy |-> l]
    /\ nsResult = None

\* sortUnhealthyByImpact(summary.TopUnhealthy) and the cut to the first ten
RankUnhealthy ==
    /\ nsResult = None
    /\ nsResult' = [sorted       |-> sortUnhealthyByImpact(nsArg.TopUnhealthy),
                    TopUnhealthy |-> truncateTop(sortUnhealthyByImpact(nsArg.TopUnhealthy))]
    /\ UNCHANGED <<callVars, nsArg>>

NextSort ==
    RankUnhealthy

SpecSort ==
    InitSort /\ [][NextSort]_vars

\* ------------------------------------------------------------------------
\* getStatusForCodeRatio on its own
\* ------------------------------------------------------------------------
ToleranceProtocols ==
    {"http", "grpc", "tcp"}

ToleranceCodes ==
    { <<"-">>, <<"0">>, <<"2">>, <<"1", "6">>, <<"4", "0">>,
      Code200, Code404, <<"4", "2", "9">>, Code500, <<"5", "0", "3">> }

\* shares of the protocol total: around and on the two boundaries
ToleranceRatios ==
    { <<0, 1>>, <<1, 1000>>, <<99, 1000>>, <<1, 10>>, <<101, 1000>>, <<3, 20>>,
      <<199, 1000>>, <<1, 5>>, <<201, 1000>>, <<1, 2>>, <<1, 1>> }

InitTolerance ==
    /\ config = "ok"
    /\ IdleCall
    /\ nsArg \in [protocol : ToleranceProtocols, code : ToleranceCodes, ratio : ToleranceRatios]
    /\ nsResult = None

\* codeStatus := getStatusForCodeRatio(protocol, code, ratio)
RateCode ==
    /\ nsResult = None
    /\ nsResult' = [codeStatus |-> getStatusForCodeRatio(nsArg.protocol, nsArg.code, nsArg.ratio)]
    /\ UNCHANGED <<callVars, nsArg>>

NextTolerance ==
    RateCode

SpecTolerance ==
    InitTolerance /\ [][NextTolerance]_vars

\* ---- evaluateRequestHealth on its own, its range loops in every order ----

\* map[string]map[string]float64, a direction of RequestHealth: nothing, http,
\* grpc, both, or http beside a protocol without error codes; the fourth http
\* map sums to zero
Directions ==
    LET http == { Code200 :> 80 @@ Code500 :> 20,
                  Code200 :> 95 @@ Code404 :> 5,
                  Code200 :> 80 @@ Code404 :> 10 @@ Code500 :> 10,
                  Code200 :> 0 @@ Code500 :> 0,
                  Code200 :> 9 @@ <<"-">> :> 1,
                  Code200 :> 10 }
        grpc == { <<"0">> :> 90 @@ <<"2">> :> 10,
                  <<"0">> :> 99 @@ <<"-">> :> 1,
                  <<"0">> :> 10 }
    IN  {EmptyMap}
        \cup {"http" :> h : h \in http}
        \cup {"grpc" :> g : g \in grpc}
        \cup {"http" :> h @@ "grpc" :> g : h \in http, g \in grpc}
        \cup {"http" :> h @@ "tcp" :> (<<"-">> :> 5) : h \in http}

InitRequests ==
    /\ config = "ok"
    /\ IdleCall
    /\ nsArg \in [Inbound : Directions, Outbound : Directions]
    /\ nsResult = None

\* evaluateRequestHealth(req), the maps ranged over in any order
EvaluateRequests ==
    /\ nsResult = None
    /\ \E inOrder \in directionOrders(nsArg.Inbound), outOrder \in directionOrders(nsArg.Outbound) :
           nsResult' = evaluateRequestHealthIn(nsArg, inOrder, outOrder)
    /\ UNCHANGED <<callVars, nsArg>>

SpecRequests ==
    InitRequests /\ [][EvaluateRequests]_vars

\* ---- mergeHealthStatus on its own ----

InitMerge ==
    /\ config = "ok"
    /\ IdleCall
    /\ nsArg \in [a : Statuses, b : Statuses, c : Statuses]
    /\ nsResult = None

\* mergeHealthStatus applied to two statuses, both ways round, to a status and
\* itself, and to three statuses in both groupings
MergeStatuses ==
    /\ nsResult = None
    /\ nsResult' = [ab    |-> mergeHealthStatus(nsArg.a, nsArg.b),
                    ba    |-> mergeHealthStatus(nsArg.b, nsArg.a),
                    aa    |-> mergeHealthStatus(nsArg.a, nsArg.a),
                    left  |-> mergeHealthStatus(mergeHealthStatus(nsArg.a, nsArg.b), nsArg.c),
                    right |-> mergeHealthStatus(nsArg.a, mergeHealthStatus(nsArg.b, nsArg.c))]
    /\ UNCHANGED <<callVars, nsArg>>

SpecMerge ==
    InitMerge /\ [][MergeStatuses]_vars

\* ---- the classifier on its own ----

\* the longest WorkloadStatuses list of an app
MaxStatuses ==
    2

\* the entities classified: apps with up to MaxStatuses workload statuses,
\* services, and workloads with or without a workload status; replicas and
\* synced proxies (-1: not reported) are small, the traffic is absent, all
\* zero, error free, 20% of 5xx, 0.5% of 5xx or 5% of 4xx
ClassifyArgs ==
    LET statuses == {WS(d, a, p) : d \in 0..2, a \in 0..2, p \in -1..1}
        requests == {ReqNone, [Inbound |-> ("http" :> (Code200 :> 0)), Outbound |-> EmptyMap],
                     ReqOK, ReqFailing, ReqLowErrors, ReqFewClientErrors}
    IN  [type : {"app"},
         entity : [WorkloadStatuses : UNION {[1..n -> statuses] : n \in 0..MaxStatuses},
                   Requests : requests]]
        \cup [type : {"service"}, entity : [Requests : requests]]
        \cup [type : {"workload"},
              entity : [WorkloadStatus : statuses \cup {Nil}, Requests : requests]]

InitClassify ==
    /\ config = "ok"
    /\ IdleCall
    /\ nsArg \in ClassifyArgs
    /\ nsResult = None

\* status, issue := evaluateAppHealth(app) / evaluateServiceHealth(svc) /
\* evaluateWorkloadHealth(wl)
Classify ==
    /\ nsResult = None
    /\ nsResult' = classifyEntity(nsArg.type, nsArg.entity)
    /\ UNCHANGED <<callVars, nsArg>>

SpecClassify ==
    InitClassify /\ [][Classify]_vars

nsHealthy ==
    nsArg.Apps.Healthy + nsArg.Services.Healthy + nsArg.Workloads.Healthy

nsDegraded ==
    nsArg.Apps.Degraded + nsArg.Services.Degraded + nsArg.Workloads.Degraded

\* C11: for the mesh-wide counts (the entities counted in total),
\* overallStatus is HEALTHY when there is an entity and every one is healthy,
\* DEGRADED when none is unhealthy and at least one is degraded, and
\* UNHEALTHY when more than half of them are unhealthy.
Thm_C11 ==
    nsResult # None =>
        /\ (nsEntities > 0 /\ nsHealthy = nsEntities) => nsResult.OverallStatus = "HEALTHY"
        /\ (nsUnhealthy = 0 /\ nsDegraded > 0) => nsResult.OverallStatus = "DEGRADED"
        /\ 2 * nsUnhealthy > nsEntities => nsResult.OverallStatus = "UNHEALTHY"

Wit_C11 ==
    /\ nsResult # None
    /\ nsEntities = 5
    /\ nsUnhealthy = 3
    /\ nsDegraded = 2
    /\ nsResult.OverallStatus = "UNHEALTHY"

\* (healthy + 0.5*degraded) / total * 100, or 100 when total is zero, and within 0..100
isAvailability(av) ==
    IF nsEntities = 0 THEN av = <<100, 1>>
    ELSE /\ av[1] * 2 * nsEntities = (2 * nsHealthy + nsDegraded) * 100 * av[2]
         /\ av[1] >= 0
         /\ av[1] <= 100 * av[2]

\* C12: the availability of the namespace and the availability of the mesh
\* are (healthy + 0.5*degraded) / total * 100, 100 when total is zero, and
\* lie between 0 and 100.
Thm_C12 ==
    nsResult # None =>
        /\ isAvailability(nsResult.NamespaceSummary.Availability)
        /\ isAvailability(nsResult.Availability)

Wit_C12 ==
    /\ nsResult # None
    /\ nsEntities = 10
    /\ nsHealthy = 4
    /\ nsDegraded = 2
    /\ nsResult.NamespaceSummary.Availability = <<50, 1>>
    /\ nsResult.Availability = <<50, 1>>

nonIncreasing(u) ==
    \A i \in 1..(Len(u) - 1) : ~RatGT(u[i + 1].ErrorRate, u[i].ErrorRate)

elements(u) ==
    {u[i] : i \in 1..Len(u)}

\* C13: topUnhealthy has at most 10 entries, is in non-increasing errorRate
\* order and holds min(10, n) records of the accumulated list, none of them
\* with a lower errorRate than a record left out; the sorted list is a
\* permutation of the accumulated list in non-increasing errorRate order.
Thm_C13 ==
    nsResult # None =>
        /\ Len(nsResult.TopUnhealthy) <= 10
        /\ nonIncreasing(nsResult.TopUnhealthy)
        /\ Len(nsResult.sorted) = Len(nsArg.TopUnhealthy)
        /\ elements(nsResult.sorted) = elements(nsArg.TopUnhealthy)
        /\ nonIncreasing(nsResult.sorted)
        /\ Len(nsResult.TopUnhealthy) = IF Len(nsArg.TopUnhealthy) < 10
                                        THEN Len(nsArg.TopUnhealthy) ELSE 10
        /\ elements(nsResult.TopUnhealthy) \subseteq elements(nsArg.TopUnhealthy)
        /\ Cardinality(elements(nsResult.TopUnhealthy)) = Len(nsResult.TopUnhealthy)
        /\ \A kept \in elements(nsResult.TopUnhealthy) :
              \A out \in elements(nsArg.TopUnhealthy) \ elements(nsResult.TopUnhealthy) :
                  ~RatGT(out.ErrorRate, kept.ErrorRate)

Wit_C13 ==
    /\ nsResult # None
    /\ Len(nsArg.TopUnhealthy) = 11
    /\ nsArg.TopUnhealthy[1].ErrorRate = <<0, 1>>
    /\ nsArg.TopUnhealthy[11].ErrorRate = <<1, 2>>
    /\ Len(nsResult.TopUnhealthy) = 10
    /\ nsResult.TopUnhealthy[1].Name = 11
    /\ \A i \in 1..10 : nsResult.TopUnhealthy[i].Name # 1

\* C14: two entities of topUnhealthy with equal errorRate are in the order
\* in which they were appended to the accumulated list.
Cex_C14 ==
    nsResult # None =>
        \A i, j \in 1..Len(nsResult.TopUnhealthy) :
            (i < j /\ nsResult.TopUnhealthy[i].ErrorRate = nsResult.TopUnhealthy[j].ErrorRate)
                => nsResult.TopUnhealthy[i].Name < nsResult.TopUnhealthy[j].Name

\* the share nsArg.ratio is at least, or more than, pct percent
shareAtLeast(pct) ==
    nsArg.ratio[1] * 100 >= pct * nsArg.ratio[2]

shareAbove(pct) ==
    nsArg.ratio[1] * 100 > pct * nsArg.ratio[2]

isHttp4xx ==
    nsArg.protocol = "http" /\ Len(nsArg.code) = 3 /\ nsArg.code[1] = "4"

isZeroTolerated ==
    \/ nsArg.protocol = "http" /\ nsArg.code = <<"-">>
    \/ nsArg.protocol = "http" /\ Len(nsArg.code) = 3 /\ nsArg.code[1] = "5"
    \/ nsArg.protocol = "grpc" /\ nsArg.code # <<"0">>

\* C15: for http 4xx a share below 10% is HEALTHY, from 10% (inclusive)
\* DEGRADED and from 20% (inclusive) UNHEALTHY; for http "-", http 5xx and
\* grpc codes other than "0" a share above 0% and below 10% is DEGRADED and
\* a share of 10% or more is UNHEALTHY.
Thm_C15 ==
    nsResult # None =>
        /\ isHttp4xx =>
              nsResult.codeStatus = IF shareAtLeast(20) THEN "UNHEALTHY"
                                    ELSE IF shareAtLeast(10) THEN "DEGRADED"
                                    ELSE "HEALTHY"
        /\ isZeroTolerated =>
              /\ shareAtLeast(10) => nsResult.codeStatus = "UNHEALTHY"
              /\ (shareAbove(0) /\ ~shareAtLeast(10)) => nsResult.codeStatus = "DEGRADED"

Wit_C15 ==
    /\ nsResult # None
    /\ nsArg.protocol = "http"
    /\ nsArg.code = Code404
    /\ nsArg.ratio = <<1, 5>>
    /\ nsResult.codeStatus = "UNHEALTHY"

\* the code/ratio pairs of a request-health argument: direction, protocol and
\* error code of every protocol whose counts do not sum to zero
errorPairs ==
    { <<d, p, c>> \in {"Inbound", "Outbound"} \X {"http", "grpc", "tcp"} \X ToleranceCodes :
         /\ p \in DOMAIN nsArg[d]
         /\ c \in DOMAIN nsArg[d][p]
         /\ SumCounts(nsArg[d][p], DOMAIN nsArg[d][p]) # 0
         /\ \/ p = "http" /\ (c = <<"-">> \/ (Len(c) = 3 /\ c[1] \in {"4", "5"}))
            \/ p = "grpc" /\ c # <<"0">> }

pairCount(e) ==
    nsArg[e[1]][e[2]][e[3]]

pairTotal(e) ==
    SumCounts(nsArg[e[1]][e[2]], DOMAIN nsArg[e[1]][e[2]])

pairStatus(e) ==
    getStatusForCodeRatio(e[2], e[3], Rat(pairCount(e), pairTotal(e)))

\* C16: evaluateRequestHealth returns the largest count/total over the error
\* codes of the protocols with a non-zero total (0 when there are none) and
\* the worst tolerance classification of those pairs (HEALTHY when there are
\* none), whatever the order in which protocols and codes are visited
Thm_C16 ==
    nsResult # None =>
        /\ \A e \in errorPairs :
               pairCount(e) * nsResult.worstRatio[2] <= nsResult.worstRatio[1] * pairTotal(e)
        /\ \/ nsResult.worstRatio = RatZero
           \/ \E e \in errorPairs :
                  pairCount(e) * nsResult.worstRatio[2] = nsResult.worstRatio[1] * pairTotal(e)
        /\ nsResult.status =
              IF \E e \in errorPairs : pairStatus(e) = "UNHEALTHY" THEN "UNHEALTHY"
              ELSE IF \E e \in errorPairs : pairStatus(e) = "DEGRADED" THEN "DEGRADED"
              ELSE "HEALTHY"

\* a degraded inbound pair, an unhealthy outbound pair of a smaller protocol
\* beside a zero-total protocol: the result is the worst of the two
Wit_C16 ==
    /\ nsResult # None
    /\ nsArg.Inbound = ("http" :> (Code200 :> 80 @@ Code404 :> 10 @@ Code500 :> 10))
    /\ nsArg.Outbound = ("http" :> (Code200 :> 0 @@ Code500 :> 0) @@ "grpc" :> (<<"0">> :> 90 @@ <<"2">> :> 10))
    /\ nsResult.status = "UNHEALTHY"
    /\ nsResult.worstRatio = Rat(1, 10)

\* the statuses from lowest to highest priority
statusRank(s) ==
    CHOOSE k \in 1..5 : <<"UNKNOWN", "HEALTHY", "NOT_READY", "DEGRADED", "UNHEALTHY">>[k] = s

\* C17: mergeHealthStatus of two of the five statuses is the one of higher
\* priority, UNHEALTHY > DEGRADED > NOT_READY > HEALTHY > UNKNOWN; the merge
\* is commutative, associative and idempotent
Thm_C17 ==
    nsResult # None =>
        /\ nsResult.ab = IF statusRank(nsArg.a) >= statusRank(nsArg.b) THEN nsArg.a ELSE nsArg.b
        /\ nsResult.ab = nsResult.ba
        /\ nsResult.aa = nsArg.a
        /\ nsResult.left = nsResult.right

\* NOT_READY merged with HEALTHY and then with UNKNOWN stays NOT_READY
Wit_C17 ==
    /\ nsResult # None
    /\ nsArg = [a |-> "HEALTHY", b |-> "NOT_READY", c |-> "UNKNOWN"]
    /\ nsResult.ab = "NOT_READY"
    /\ nsResult.left = "NOT_READY"

\* the workload statuses of the classified app or workload
statusList ==
    IF nsArg.type = "app" THEN nsArg.entity.WorkloadStatuses
    ELSE IF nsArg.type = "workload" /\ nsArg.entity.WorkloadStatus # Nil
         THEN <<nsArg.entity.WorkloadStatus>>
    ELSE << >>

\* C18: an app or workload all of whose workload statuses have
\* desiredReplicas = 0 is classified NOT_READY, never UNHEALTHY, whatever
\* its error rate
Cex_C18 ==
    (/\ nsResult # None
     /\ statusList # << >>
     /\ \A k \in 1..Len(statusList) : statusList[k].DesiredReplicas = 0)
    => nsResult.status = "NOT_READY"

\* no count of the classified entity's traffic differs from zero
noTraffic ==
    \A d \in {"Inbound", "Outbound"} :
        \A p \in DOMAIN nsArg.entity.Requests[d] :
            \A c \in DOMAIN nsArg.entity.Requests[d][p] :
                nsArg.entity.Requests[d][p][c] = 0

\* the three cases of an entity that cannot be rated
notEvaluable ==
    \/ nsArg.type = "app" /\ nsArg.entity.WorkloadStatuses = << >>
    \/ nsArg.type = "service" /\ noTraffic
    \/ nsArg.type = "workload" /\ noTraffic /\ nsArg.entity.WorkloadStatus = Nil

\* C19: an entity is UNKNOWN exactly when it is an app without workload
\* statuses (issue "no workloads found"), a service without a non-zero
\* request count (no issue) or a workload without a non-zero request count
\* and without workload status (no issue); a service with traffic gets the
\* status of evaluateRequestHealth
Thm_C19 ==
    nsResult # None =>
        /\ nsResult.status = "UNKNOWN" <=> notEvaluable
        /\ notEvaluable =>
              nsResult.issue = IF nsArg.type = "app" THEN <<"no workloads found">> ELSE << >>
        /\ (nsArg.type = "service" /\ ~noTraffic) =>
              \A inOrder \in directionOrders(nsArg.entity.Requests.Inbound),
                 outOrder \in directionOrders(nsArg.entity.Requests.Outbound) :
                  nsResult.status = evaluateRequestHealthIn(nsArg.entity.Requests, inOrder, outOrder).status

\* a workload without workload status whose only request count is zero
Wit_C19 ==
    /\ nsResult # None
    /\ nsArg.type = "workload"
    /\ nsArg.entity.WorkloadStatus = Nil
    /\ nsArg.entity.Requests.Inbound = ("http" :> (Code200 :> 0))
    /\ nsResult = [status |-> "UNKNOWN", issue |-> << >>]

\* the status one workload status stands for on its own
singleStatus(ws) ==
    IF ws.DesiredReplicas = 0 THEN "NOT_READY"
    ELSE IF ws.AvailableReplicas = 0 THEN "UNHEALTHY"
    ELSE IF ws.AvailableReplicas < ws.DesiredReplicas THEN "DEGRADED"
    ELSE IF ws.SyncedProxies >= 0 /\ ws.SyncedProxies < ws.AvailableReplicas THEN "DEGRADED"
    ELSE "HEALTHY"

\* the status of highest priority among the workload statuses of the app
highestStatus ==
    CHOOSE st \in {singleStatus(statusList[k]) : k \in 1..Len(statusList)} :
        \A k \in 1..Len(statusList) : statusRank(st) >= statusRank(singleStatus(statusList[k]))

\* the same, merged with the status of the app's traffic
mergedStatus(requestStatus) ==
    IF statusRank(highestStatus) >= statusRank(requestStatus) THEN highestStatus ELSE requestStatus

\* C20: the status of an app with workload statuses is the highest-priority
\* status over its workload statuses, whatever their order, merged with its
\* request-health status; an app with a workload of desired > 0 and no
\* available replica is UNHEALTHY
Cex_C20 ==
    (nsResult # None /\ nsArg.type = "app" /\ statusList # << >>)
    => /\ nsResult.status = mergedStatus(evaluateRequestHealth(nsArg.entity.Requests).status)
       /\ (\E k \in 1..Len(statusList) :
               statusList[k].DesiredReplicas > 0 /\ statusList[k].AvailableReplicas = 0)
           => nsResult.status = "UNHEALTHY"

\* the entities of the parsed payloads: <<type, namespace, name>>
payloadEntities ==
    UNION { {<<c[1], c[2], name>> :
                name \in DOMAIN entityMaps(parsed["app"], parsed["service"], parsed["workload"])[c]} :
            c \in DOMAIN entityMaps(parsed["app"], parsed["service"], parsed["workload"]) }

payloadEntity(e) ==
    entityMaps(parsed["app"], parsed["service"], parsed["workload"])[<<e[1], e[2]>>][e[3]]

\* those of them classified UNHEALTHY
unhealthyEntities ==
    { e \in payloadEntities : classifyEntity(e[1], payloadEntity(e)).status = "UNHEALTHY" }

recordKey(u) ==
    <<u.Type, u.Namespace, u.Name>>

\* C21: topUnhealthy holds one record for each of the first entities
\* classified UNHEALTHY and none for another entity: its length is the
\* smaller of 10 and the mesh-wide unhealthy count, every record has status
\* UNHEALTHY and names an UNHEALTHY entity of the payloads, no entity has two
\* records, and below the limit every UNHEALTHY entity has its record
Thm_C21 ==
    summary # None =>
        /\ Len(summary.TopUnhealthy) =
              IF Cardinality(unhealthyEntities) > 10 THEN 10 ELSE Cardinality(unhealthyEntities)
        /\ Cardinality(unhealthyEntities) =
              summary.EntityCounts.Apps.Unhealthy + summary.EntityCounts.Services.Unhealthy
                  + summary.EntityCounts.Workloads.Unhealthy
        /\ \A k \in 1..Len(summary.TopUnhealthy) :
              /\ summary.TopUnhealthy[k].Status = "UNHEALTHY"
              /\ recordKey(summary.TopUnhealthy[k]) \in unhealthyEntities
              /\ \A j \in 1..Len(summary.TopUnhealthy) :
                    recordKey(summary.TopUnhealthy[j]) = recordKey(summary.TopUnhealthy[k]) => j = k
        /\ Cardinality(unhealthyEntities) <= 10 =>
              \A e \in unhealthyEntities :
                  \E k \in 1..Len(summary.TopUnhealthy) : recordKey(summary.TopUnhealthy[k]) = e

\* twelve unhealthy entities in six entity maps: ten of them are listed
Wit_C21 ==
    /\ summary # None
    /\ Cardinality(unhealthyEntities) = 12
    /\ Len(summary.TopUnhealthy) = 10
    /\ \E k \in 1..10 : summary.TopUnhealthy[k].Type = "workload"

\* the fetch of type t delivered a payload without any namespace
emptyPayload(t) ==
    /\ errs[t] = NoError
    /\ data[t].kind = "json"
    /\ data[t].value.AppHealth = EmptyMap
    /\ data[t].value.ServiceHealth = EmptyMap
    /\ data[t].value.WorkloadHealth = EmptyMap

\* C22: when the three fetches succeed with payloads holding no namespace,
\* the call succeeds with overallStatus UNKNOWN, all counts zero,
\* namespaceCount 0, availability 100, no namespace entry and no unhealthy
\* entity
Thm_C22 ==
    (pc = "returned" /\ \A t \in EntityTypes : emptyPayload(t)) =>
        /\ result.err = NoError
        /\ result.content.kind = "json"
        /\ summary.OverallStatus = "UNKNOWN"
        /\ \A t \in {"Apps", "Services", "Workloads"} :
              \A b \in {"Total", "Healthy", "Degraded", "Unhealthy", "NotReady"} :
                  summary.EntityCounts[t][b] = 0
        /\ summary.NamespaceCount = 0
        /\ summary.NamespaceSummary = << >>
        /\ summary.Availability = <<100, 1>>
        /\ summary.TotalErrorRate = <<0, 1>>
        /\ summary.TopUnhealthy = << >>
        /\ result.content.value.OverallStatus = "UNKNOWN"
        /\ result.content.value.Availability = <<100, 1>>
        /\ "TopUnhealthy" \notin DOMAIN result.content.value

\* a call with a rate interval of its own answered by three empty payloads
Wit_C22 ==
    /\ pc = "returned"
    /\ \A t \in EntityTypes : emptyPayload(t)
    /\ queryParams = ("rateInterval" :> "5m")
    /\ summary # None
    /\ summary.RateInterval = "5m"

\* the payload of type t is not a document of the expected shape
unparsable(t) ==
    data[t].kind # "json"

\* C23: when the three fetches succeed and a payload cannot be parsed, the
\* call returns "failed to parse <type> health" for a type whose payload
\* cannot be parsed, and no summary; nothing is parsed unless all three
\* fetches succeeded, and a failed fetch is reported rather than a payload
\* that cannot be parsed
Thm_C23 ==
    /\ (pc = "returned" /\ (\A t \in EntityTypes : errs[t] = NoError)
           /\ \E t \in EntityTypes : unparsable(t)) =>
          /\ result.content = NoData
          /\ summary = None
          /\ result.err[1] = "failed to parse"
          /\ \E t \in EntityTypes : unparsable(t) /\ result.err[2] = typeLabel(t)
    /\ (\E t \in EntityTypes : errs[t] # NoError) =>
          /\ parsed = None
          /\ pc \notin {"fetched", "parsed"}
          /\ pc = "returned" => result.err[1] = "failed to fetch"
    /\ pc \in {"fetched", "parsed"} => AllFetchesDone

\* only the service payload cannot be parsed
Wit_C23 ==
    /\ pc = "returned"
    /\ \A t \in EntityTypes : errs[t] = NoError
    /\ data["app"].kind = "json"
    /\ data["service"] = MalformedBody
    /\ data["workload"].kind = "json"
    /\ result.err[2] = "service health"

\* the status the classification gives each entity of the payloads, and its
\* error rate
entityStatuses ==
    [e \in payloadEntities |-> classifyEntity(e[1], payloadEntity(e)).status]

entityRates ==
    [e \in payloadEntities |-> calculateErrorRate(payloadEntity(e).Requests)]

bucketStatus(bucket) ==
    CASE bucket = "Healthy"   -> "HEALTHY"
      [] bucket = "Degraded"  -> "DEGRADED"
      [] bucket = "Unhealthy" -> "UNHEALTHY"
      [] bucket = "NotReady"  -> "NOT_READY"

\* the entities of type t counted for namespace ns: all of them, or those
\* with the status of a bucket
bucketEntities(st, t, ns, bucket) ==
    { e \in DOMAIN st :
         /\ e[1] = t
         /\ e[2] = ns
         /\ (bucket = "Total" \/ st[e] = bucketStatus(bucket)) }

\* the sum of the error rates of a set of entities
RECURSIVE rateSum(_, _)
rateSum(rates, S) ==
    IF S = {} THEN RatZero
    ELSE RatAdd(rates[CHOOSE e \in S : TRUE],
                rateSum(rates, S \ {CHOOSE e \in S : TRUE}))

\* the sum of the namespaces' errorRate values
RECURSIVE namespaceRateSum(_)
namespaceRateSum(S) ==
    IF S = {} THEN RatZero
    ELSE RatAdd(summary.NamespaceSummary[CHOOSE ns \in S : TRUE].ErrorRate,
                namespaceRateSum(S \ {CHOOSE ns \in S : TRUE}))

countedOnce(st, rates) ==
    /\ \A t \in EntityTypes :
          \A b \in {"Total", "Healthy", "Degraded", "Unhealthy", "NotReady"} :
              /\ \A ns \in DOMAIN summary.NamespaceSummary :
                    summary.NamespaceSummary[ns][typeField(t)][b]
                        = Cardinality(bucketEntities(st, t, ns, b))
              /\ summary.EntityCounts[typeField(t)][b]
                    = Cardinality(UNION {bucketEntities(st, t, ns, b) : ns \in Namespaces})
    /\ \A e \in DOMAIN st : e[2] \in DOMAIN summary.NamespaceSummary
    /\ \A ns \in DOMAIN summary.NamespaceSummary :
          summary.NamespaceSummary[ns].ErrorRate
              = rateSum(rates, {e \in DOMAIN rates : e[2] = ns})
    /\ summary.TotalErrorRate = namespaceRateSum(DOMAIN summary.NamespaceSummary)

\* C24: every entity is counted once, under its namespace and its type: a
\* namespace's count of a type and bucket is the number of its entities of
\* that type (with that status), the mesh-wide count is the number over all
\* namespaces, a namespace's errorRate is the sum of its entities' error
\* rates and totalErrorRate the sum of the namespaces' errorRate values
Thm_C24 ==
    summary # None => countedOnce(entityStatuses, entityRates)

\* two namespaces with an entity each, of different types and statuses, both
\* with errors
Wit_C24 ==
    /\ summary # None
    /\ DOMAIN summary.NamespaceSummary = {1, 2}
    /\ summary.NamespaceSummary[1].Services.Unhealthy = 1
    /\ summary.NamespaceSummary[2].Apps.Degraded = 1
    /\ summary.NamespaceSummary[1].ErrorRate = <<1, 5>>
    /\ summary.NamespaceSummary[2].ErrorRate = <<1, 200>>
    /\ summary.TotalErrorRate = <<41, 200>>

\* C25: the summary computed from the parsed payloads is the same, apart
\* from the timestamp, whatever order the namespace set and the entity maps
\* are iterated in
Cex_C25 ==
    summary # None =>
        \A nsOrder \in Perms(namespaceKeys(parsed["app"], parsed["service"], parsed["workload"])),
           entOrder \in rangeOrders(entityMaps(parsed["app"], parsed["service"], parsed["workload"]),
                                    DOMAIN entityMaps(parsed["app"], parsed["service"], parsed["workload"])) :
            computeHealthSummary(parsed["app"], parsed["service"], parsed["workload"],
                                 rateInterval, summary.Timestamp, nsOrder, entOrder) = summary

\* the outcome the call's own fetch results determine: the first fetch error,
\* else the first parse error, else a summary of the three payloads
ownOutcome ==
    IF \E t \in EntityTypes : errs[t] # NoError
    THEN /\ result.content = NoData
         /\ result.err[1] = "failed to fetch"
         /\ \E t \in EntityTypes : errs[t] # NoError /\ result.err[3] = errs[t]
    ELSE IF \E t \in EntityTypes : data[t].kind # "json"
    THEN /\ result.content = NoData
         /\ result.err[1] = "failed to parse"
    ELSE /\ result.err = NoError
         /\ summary.RateInterval = rateInterval
         /\ \A e \in payloadEntities :
               payloadEntity(e) = data[e[1]].value[CASE e[1] = "app"      -> "AppHealth"
                                                     [] e[1] = "service"  -> "ServiceHealth"
                                                     [] e[1] = "workload" -> "WorkloadHealth"][e[2]][e[3]]
         /\ summary.EntityCounts.Apps.Total + summary.EntityCounts.Services.Total
                + summary.EntityCounts.Workloads.Total = Cardinality(payloadEntities)

slotWritten(t) ==
    data'[t] # data[t] \/ errs'[t] # errs[t]

\* the step is the return of the fetch goroutine of type t and of no other
fetchReturns(t) ==
    /\ pc = "waiting"
    /\ task[t] \in {"ready", "sent", "reading"}
    /\ task'[t] = "done"
    /\ \A u \in EntityTypes \ {t} : task'[u] = task[u]

\* C27: while the call runs a result or error slot is assigned only by the
\* return of the goroutine of its own type, one goroutine per step and each
\* slot at most once; the caller's queryParams are never assigned; and the
\* slots are read (the join passed, the errors checked, the payloads parsed)
\* only when every goroutine has returned
Thm_C27 ==
    [][ /\ pc # "returned" =>
              \A t \in EntityTypes :
                  slotWritten(t) =>
                      /\ fetchReturns(t)
                      /\ data[t] = NoData /\ errs[t] = NoError
                      /\ \A u \in EntityTypes \ {t} : ~slotWritten(u)
        /\ pc = "waiting" => queryParams' = queryParams
        /\ (pc \in {"waiting", "joined", "fetched"} /\ pc' # pc) =>
              \A t \in EntityTypes : task[t] = "done" /\ task'[t] = "done"
      ]_vars

\* two goroutines have assigned their slots while the third is reading its
\* response
Wit_C27 ==
    /\ pc = "waiting"
    /\ task["app"] = "done" /\ data["app"].kind = "json"
    /\ task["service"] = "done" /\ errs["service"] # NoError
    /\ task["workload"] = "reading"
    /\ queryParams = ("rateInterval" :> "5m" @@ "queryTime" :> "1700000000")

\* C28: a workload with a workload status is rated like an app whose only
\* workload status is that one and whose requests are the same: same
\* status, same issue
Thm_C28 ==
    nsResult # None =>
        /\ (nsArg.type = "workload" /\ nsArg.entity.WorkloadStatus # Nil) =>
              nsResult = evaluateAppHealth([WorkloadStatuses |-> <<nsArg.entity.WorkloadStatus>>,
                                            Requests |-> nsArg.entity.Requests])
        /\ (nsArg.type = "app" /\ Len(statusList) = 1) =>
              nsResult = evaluateWorkloadHealth([WorkloadStatus |-> statusList[1],
                                                 Requests |-> nsArg.entity.Requests])

\* a workload with one of two replicas available, proxies out of sync and
\* few server errors: DEGRADED for its replicas
Wit_C28 ==
    /\ nsResult # None
    /\ nsArg.type = "workload"
    /\ nsArg.entity.WorkloadStatus = WS(2, 1, 0)
    /\ nsArg.entity.Requests = ReqLowErrors
    /\ nsResult = [status |-> "DEGRADED", issue |-> IssueReplicas(1, 2)]

\* the first type, in the order app, service, workload, whose fetch failed
firstFailed ==
    IF errs["app"] # NoError THEN "app"
    ELSE IF errs["service"] # NoError THEN "service"
    ELSE "workload"

\* the summary of the three payloads with its maps visited in a fixed order
summaryInFixedOrder ==
    computeHealthSummary(parsed["app"], parsed["service"], parsed["workload"],
                         rateInterval, summary.Timestamp,
                         SetToSeq(namespaceKeys(parsed["app"], parsed["service"], parsed["workload"])),
                         [c \in DOMAIN entityMaps(parsed["app"], parsed["service"], parsed["workload"]) |->
                             SetToSeq(DOMAIN entityMaps(parsed["app"], parsed["service"],
                                                        parsed["workload"])[c])])

\* C29: what the call returns is determined by the three fetch results,
\* whatever the order in which the fetches started and completed: the
\* failure of the first failed type in the order app, service, workload,
\* or else, apart from the timestamp, one summary of the payloads
Cex_C29 ==
    pc = "returned" =>
        IF \E t \in EntityTypes : errs[t] # NoError
        THEN result = [content |-> NoData,
                       err |-> <<"failed to fetch", typeLabel(firstFailed), errs[firstFailed]>>]
        ELSE IF \E t \in EntityTypes : data[t].kind # "json"
        THEN result.content = NoData /\ result.err[1] = "failed to parse"
        ELSE result = [content |-> marshalSummary(summaryInFixedOrder), err |-> NoError]

\* C30: the percentage in an issue "error rate: XX.XX%" of a topUnhealthy
\* record is the record's errorRate times 100, printed with two decimals
Cex_C30 ==
    summary # None =>
        \A k \in 1..Len(summary.TopUnhealthy) :
            (Len(summary.TopUnhealthy[k].Issue) = 2 /\ summary.TopUnhealthy[k].Issue[1] = "error rate") =>
                summary.TopUnhealthy[k].Issue[2]
                    = FormatHundredths(RatTimesInt(summary.TopUnhealthy[k].ErrorRate, 100))

====
